---- MODULE Spec2Model ----
(***************************************************************************)
(* The auto-selector orchestrator (server.js): the scheme-selection policy *)
(* engine and the POST /select/ake pipeline.                               *)
(*                                                                         *)
(* One /select/ake request is followed from its arrival to its reply.  The *)
(* handler is cut at its awaits: every action is the code between two      *)
(* awaits together with the answer of the outbound call it waits for.  In  *)
(* selectSigScheme two probes are open at once: there the probes sent are  *)
(* state (`open`), and an action is the answer of one of them with the     *)
(* code that follows it.  `calls` lists the calls in the order they were   *)
(* answered.  The backends are the environment: every probe and every call *)
(* may answer or fail, independently of every earlier one, so all races    *)
(* between selection and use are behaviours of the model.                  *)
(*                                                                         *)
(* JavaScript values: `undefined` is the string Undefined; a               *)
(* payloadHintBytes is a record [k, n] (k: "undefined", "num", "str" for a *)
(* non-numeric string); an error message is a tuple of words, so that      *)
(* String.prototype.includes can be computed on it.                        *)
(***************************************************************************)
EXTENDS Integers, Sequences, FiniteSets, TLC

VARIABLES
    pc,            \* position of the handler
    req,           \* req.body: payloadHintBytes, policyPreferredSig
    awaiting,      \* selectSigScheme: the firstReachable calls not yet returned
    dBase, fBase,  \* selectSigScheme: firstReachable of each signature backend
    scheme,        \* the selected scheme
    kyberBase, sigBase, rotationBase,
    kp,            \* answer of /kyber/generate-keypair
    signer,        \* baseServiceSignerPublicKey
    strategies,    \* signatureStrategies
    idx,           \* position of the for-of loop over signatureStrategies
    ctx,           \* the context under submission
    lastSigError, encapRes, ctxForDecap, decapRes,
    reply,         \* the HTTP reply
    calls,         \* outbound calls of the request, in the order answered
    health,        \* GET /health: kb, db, fb, rb
    probing,       \* probe(base): what fetch did, and what probe returned
    level,         \* req.body.level
    signerInfo,    \* the level, alg and algorithm fields of signerInfo
    rotationAlg,   \* deriveRotationAlgorithm(scheme, baseSignerLevel)
    tried,         \* firstReachable: candidates each call in flight found down
    open,          \* selectSigScheme: the probes sent and not yet answered
    deriving,      \* deriveRotationAlgorithm(scheme, levelHint) and what it returned
    signerMeta,    \* what /orchestrator/signer reports of the signer's level
    current,       \* the rotation strategy's `current`
    faultsLeft,    \* backend faults the environment may still produce
    downsLeft      \* probes the environment may still leave unanswered

vars == <<pc, req, awaiting, dBase, fBase, scheme, kyberBase, sigBase, rotationBase, kp,
          signer, strategies, idx, ctx, lastSigError, encapRes, ctxForDecap,
          decapRes, reply, calls, health, probing, level, signerInfo, rotationAlg,
          tried, open, deriving, signerMeta, current, faultsLeft, downsLeft>>

------------------------------------------------------------------------------
(* Values *)

Undefined == "undefined"
\* The payload-size threshold of the heuristic.
TightLimit == 1024

\* firstReachable's null
NoBase == 0

\* Entries of a candidate list.
NumBases == 2
Bases == 1..NumBases

\* Sample payload hints: below, at and above the thresholds of the code.
HUndef == [k |-> "undefined", n |-> 0]
HStr == [k |-> "str", n |-> 0]
HNum(v) == [k |-> "num", n |-> v]
HintNums == {-5, 0, 1024, 1025}
HintValues == {HUndef, HStr} \cup {HNum(v) : v \in HintNums}

PrefValues == {Undefined, "falcon", "dilithium", "sphincs"}

Schemes == {"dilithium", "falcon"}

------------------------------------------------------------------------------
(* JavaScript coercions used by the policy engine *)

\* isNaN(v): Number(undefined) and Number("abc") are NaN.
IsNaN(h) == h.k # "num"

\* v > 0 (false when v coerces to NaN)
GtZero(h) == h.k = "num" /\ h.n > 0

\* Mutant: the threshold itself is excluded.
LtTight(h) == h.k = "num" /\ h.n < TightLimit

\* v <= 1024 (false when v coerces to NaN)
LeTight(h) == h.k = "num" /\ h.n <= TightLimit

\* ToBoolean(v) of a payloadHintBytes: undefined and 0 are falsy, a non-empty
\* string and every other number are truthy.
TruthyHint(h) == h.k = "str" \/ (h.k = "num" /\ h.n # 0)

\* ToBoolean(v) of a policyPreferredSig
TruthyPref(p) == p # Undefined /\ p # ""

------------------------------------------------------------------------------
(* probe / firstReachable *)

\* What the fetch of probe(base) does within the 1500 ms of withTimeout: it
\* resolves with a final response (status 200 to 599), or it rejects on a
\* transport error or a malformed response, or the timeout rejects first.
FetchOutcomes ==
    { [kind |-> "response", status |-> st] : st \in 200..599 }
    \cup { [kind |-> k, status |-> 0] : k \in {"transport_error", "malformed", "timeout"} }

\* res.ok
Ok(res) == res.status \in 200..299

\* Mutant: only a success status counts.
ProbeOkOnly(res) == res.kind = "response" /\ Ok(res)

\* probe(base) on the outcome res of its fetch: !!res?.ok || res?.status >= 200,
\* and false from the catch.
Probe(res) ==
    IF res.kind = "response" THEN Ok(res) \/ res.status >= 200 ELSE FALSE

\* The candidate lists, by the backend they name.
Lists == {"kyber", "dilithium", "falcon", "rotation"}

\* No firstReachable call is in flight.
NoneTried == [l \in Lists |-> 0]

\* `b` of the for-of loop of firstReachable(bases) for the list `to`: the
\* candidate after those already found down.
Candidate(to) == tried[to] + 1

\* await probe(b), answering ok.
ProbeCall(to, ok) ==
    <<[to |-> to, ep |-> "health", base |-> Candidate(to), ok |-> ok]>>

\* Mutant: the loop goes through the whole list.
ReturnsAfterAll(to, ok) == Candidate(to) = NumBases

\* firstReachable returns on this probe: `return b` when it answered true,
\* `return null` after the last candidate.
Returns(to, ok) == ok \/ Candidate(to) = NumBases

\* What firstReachable returns on this probe.
FirstReachable(to, ok) == IF ok THEN Candidate(to) ELSE NoBase

\* The loop after this probe: the next candidate, or the call is over.
Tried(to, ok) ==
    [tried EXCEPT ![to] = IF Returns(to, ok) THEN 0 ELSE Candidate(to)]

Call(to, ep, base) == <<[to |-> to, ep |-> ep, base |-> base]>>

\* A call together with the body posted and how it ended.
CallWith(to, ep, base, body, answer) ==
    <<[to |-> to, ep |-> ep, base |-> base, body |-> body, answer |-> answer]>>

\* A call together with what it answered.
Exchange(to, ep, base, answer) ==
    <<[to |-> to, ep |-> ep, base |-> base, answer |-> answer]>>

------------------------------------------------------------------------------
(* deriveRotationAlgorithm *)

\* A level hint is a JSON value or absent: a record with its typeof; a number
\* carries its value in tenths, a string its characters.
Absent == [type |-> "undefined"]
Null == [type |-> "null"]
Num(t) == [type |-> "number", finite |-> TRUE, tenths |-> t]
\* 1e999 parses to Infinity
NotFinite == [type |-> "number", finite |-> FALSE, tenths |-> 0]
Bool == [type |-> "boolean"]
Str(cs) == [type |-> "string", chars |-> cs]

FalconChars == <<"f", "a", "l", "c", "o", "n">>
DilithiumChars == <<"d", "i", "l", "i", "t", "h", "i", "u", "m">>

\* `${scheme}`
SchemeChars(s) == IF s = "dilithium" THEN DilithiumChars ELSE FalconChars

\* a ?? b
Coalesce(a, b) == IF a.type \in {"undefined", "null"} THEN b ELSE a

\* No call of deriveRotationAlgorithm is followed on its own.
NoDerive == [scheme |-> Undefined, levelHint |-> Absent, returned |-> <<>>]

\* A signer answer without level, alg and algorithm.
NoSignerInfo == [level |-> Absent, alg |-> Absent, algorithm |-> Absent]

\* level ?? signerInfo.level ?? signerInfo.alg ?? signerInfo.algorithm
BaseSignerLevel(lv, info) ==
    Coalesce(lv, Coalesce(info.level, Coalesce(info.alg, info.algorithm)))

\* Math.round of a number given in tenths: the nearest integer, halves upwards.
Round(t) == (t + 5) \div 10

\* Math.min(5, Math.max(1, n))
Clamp(n) == IF n < 1 THEN 1 ELSE IF n > 5 THEN 5 ELSE n

\* White space and line terminators: space, tab, line feed, carriage return,
\* form feed, vertical tab, U+00A0, U+1680 and U+FEFF.  The others (U+2000 to
\* U+200A, U+2028, U+2029, U+202F, U+205F, U+3000) cannot be written in a
\* string here.
WhiteSpace == {" ", "\t", "\n", "\r", "\f", "", " ", " ", "﻿"}

\* String.prototype.trim
Trim(cs) ==
    LET keep == { i \in 1..Len(cs) : cs[i] \notin WhiteSpace }
    IN IF keep = {} THEN <<>>
       ELSE SubSeq(cs, CHOOSE i \in keep : \A j \in keep : i <= j,
                       CHOOSE i \in keep : \A j \in keep : i >= j)

\* The characters of a string, one by one.
Characters(w) == [i \in 1..Len(w) |-> SubSeq(w, i, i)]

\* String.prototype.toLowerCase follows the Unicode case mapping (Unicode 17).
\* A string here holds a character below U+0100 or one whose code ends in 80
\* to FF, except the backtick: these are the characters a string of the model
\* is made of.  UpperCase holds those that toLowerCase changes into such a
\* character and LowerCase, at the same position, what each becomes.  Left
\* out are the characters that cannot be written, among them U+0130, the one
\* letter that becomes two characters, U+212A, which becomes k, and the
\* letters outside the basic plane.
UpperCase ==
    "ABCDEFGHIJKLMNOPQRSTUVWXYZÀÁÂÃÄÅÆÇÈÉÊËÌÍÎÏÐÑÒÓÔÕÖØÙÚÛÜÝÞƂƄƇƋ"
    \o "ƎƑƘƠƢƤƦƧƩƬƮƯƱƲƳƵƷƸƼǄǅǇǈǊǋǍǏǑǓǕǗǙǛǞǠǢǤǦǨǪǬǮǱǲǴǶǷǸǺǼǾΆΈΉΊΌΎΏΑΒ"
    \o "ΓΔΕΖΗΘΙΚΛΜΝΞΟΠΡΣΤΥΦΧΨΩΪΫϏϘϚϜϞϠϢϤϦϨϪϬϮϴϷϹϺҀҊҌҎҐҒҔҖҘҚҜҞҠҢҤҦҨҪҬ"
    \o "ҮҰҲҴҶҸҺҼҾӀӁӃӅӇӉӋӍӐӒӔӖӘӚӜӞӠӢӤӦӨӪӬӮӰӲӴӶӸӺӼӾᎰᎱᎲᎳᎴᎵᎶᎷᎸᎹᎺᎻᎼᎽᎾᎿᏀᏁᏂ"
    \o "ᏃᏄᏅᏆᏇᏈᏉᏊᏋᏌᏍᏎᏏᏐᏑᏒᏓᏔᏕᏖᏗᏘᏙᏚᏛᏜᏝᏞᏟᏠᏡᏢᏣᏤᏥᏦᏧᏨᏩᏪᏫᏬᏭᏮᏯᏰᏱᏲᏳᏴᏵᲉᲐᲑᲒᲓᲔᲕᲖᲗ"
    \o "ᲘᲙᲚᲛᲜᲝᲞᲟᲠᲡᲢᲣᲤᲥᲦᲧᲨᲩᲪᲫᲬᲭᲮᲯᲰᲱᲲᲳᲴᲵᲶᲷᲸᲹᲺᲽᲾᲿẀẂẄẆẈẊẌẎẐẒẔẞẠẢẤẦẨẪẬẮẰẲ"
    \o "ẴẶẸẺẼẾỀỂỄỆỈỊỌỎỐỒỔỖỘỚỜỞỠỢỤỦỨỪỬỮỰỲỴỶỸỺỼỾᾈᾉᾊᾋᾌᾍᾎᾏᾘᾙᾚᾛᾜᾝᾞᾟᾨᾩᾪᾫᾬᾭ"
    \o "ᾮᾯᾸᾹᾼῌῘῙῨῩῬῼↃⒶⒷⒸⒹⒺⒻⒼⒽⒾⒿⓀⓁⓂⓃⓄⓅⓆⓇⓈⓉⓊⓋⓌⓍⓎⓏⲀⲂⲄⲆⲈⲊⲌⲎⲐⲒⲔⲖⲘⲚⲜⲞⲠⲢⲤⲦⲨ"
    \o "ⲪⲬⲮⲰⲲⲴⲶⲸⲺⲼⲾⳀⳂⳄⳆⳈⳊⳌⳎⳐⳒⳔⳖⳘⳚⳜⳞⳠⳢⳫⳭⳲꚀꚂꚄꚆꚈꚊꚌꚎꚐꚒꚔꚖꚘꚚꞀꞂꞄꞆꞋꞐꞒꞖꞘꞚꞜꞞꞠꞢ"
    \o "ꞤꞦꞨꞰꞱꞲꞴꞶꞸꞺꞼꞾꟀꟂꟄꟅꟆꟇꟉꟌ꟎Ꟑ꟒꟔ꟖꟘꟚꟜꟵ"

LowerCase ==
    "abcdefghijklmnopqrstuvwxyzàáâãäåæçèéêëìíîïðñòóôõöøùúûüýþƃƅƈƌ"
    \o "ǝƒƙơƣƥʀƨʃƭʈưʊʋƴƶʒƹƽǆǆǉǉǌǌǎǐǒǔǖǘǚǜǟǡǣǥǧǩǫǭǯǳǳǵƕƿǹǻǽǿάέήίόύώαβ"
    \o "γδεζηθικλμνξοπρστυφχψωϊϋϗϙϛϝϟϡϣϥϧϩϫϭϯθϸϲϻҁҋҍҏґғҕҗҙқҝҟҡңҥҧҩҫҭ"
    \o "үұҳҵҷҹһҽҿӏӂӄӆӈӊӌӎӑӓӕӗәӛӝӟӡӣӥӧөӫӭӯӱӳӵӷӹӻӽӿꮀꮁꮂꮃꮄꮅꮆꮇꮈꮉꮊꮋꮌꮍꮎꮏꮐꮑꮒ"
    \o "ꮓꮔꮕꮖꮗꮘꮙꮚꮛꮜꮝꮞꮟꮠꮡꮢꮣꮤꮥꮦꮧꮨꮩꮪꮫꮬꮭꮮꮯꮰꮱꮲꮳꮴꮵꮶꮷꮸꮹꮺꮻꮼꮽꮾꮿᏸᏹᏺᏻᏼᏽᲊაბგდევზთ"
    \o "იკლმნოპჟრსტუფქღყშჩცძწჭხჯჰჱჲჳჴჵჶჷჸჹჺჽჾჿẁẃẅẇẉẋẍẏẑẓẕßạảấầẩẫậắằẳ"
    \o "ẵặẹẻẽếềểễệỉịọỏốồổỗộớờởỡợụủứừửữựỳỵỷỹỻỽỿᾀᾁᾂᾃᾄᾅᾆᾇᾐᾑᾒᾓᾔᾕᾖᾗᾠᾡᾢᾣᾤᾥ"
    \o "ᾦᾧᾰᾱᾳῃῐῑῠῡῥῳↄⓐⓑⓒⓓⓔⓕⓖⓗⓘⓙⓚⓛⓜⓝⓞⓟⓠⓡⓢⓣⓤⓥⓦⓧⓨⓩⲁⲃⲅⲇⲉⲋⲍⲏⲑⲓⲕⲗⲙⲛⲝⲟⲡⲣⲥⲧⲩ"
    \o "ⲫⲭⲯⲱⲳⲵⲷⲹⲻⲽⲿⳁⳃⳅⳇⳉⳋⳍⳏⳑⳓⳕⳗⳙⳛⳝⳟⳡⳣⳬⳮⳳꚁꚃꚅꚇꚉꚋꚍꚏꚑꚓꚕꚗꚙꚛꞁꞃꞅꞇꞌꞑꞓꞗꞙꞛꞝꞟꞡꞣ"
    \o "ꞥꞧꞩʞʇʝꞵꞷꞹꞻꞽꞿꟁꟃꞔʂᶎꟈꟊꟍ꟏ꟑꟓꟕꟗꟙꟛƛꟶ"

\* The letters that toLowerCase changes into a character that cannot be
\* written, and at the same position the code of that character, which
\* stands for it in a lowered string.
UpperCaseRest ==
    "ƁƆƉƊƏƐƓƔƖƗƜƝƟϽϾϿႠႡႢႣႤႥႦႧႨႩႪႫႬႭႮႯႰႱႲႳႴႵႶႷႸႹႺႻႼႽႾႿჀჁჂჃჄჅჇჍᎠᎡᎢᎣ"
    \o "ᎤᎥᎦᎧᎨᎩᎪᎫᎬᎭᎮᎯᾺΆῈΈῊΉῚΊῪΎῸΌῺΏꞍꞪꞫꞬꞭꞮꞳꟋ"

LowerCaseRest ==
    <<"U+0253", "U+0254", "U+0256", "U+0257", "U+0259", "U+025B", "U+0260", "U+0263",
      "U+0269", "U+0268", "U+026F", "U+0272", "U+0275", "U+037B", "U+037C", "U+037D",
      "U+2D00", "U+2D01", "U+2D02", "U+2D03", "U+2D04", "U+2D05", "U+2D06", "U+2D07",
      "U+2D08", "U+2D09", "U+2D0A", "U+2D0B", "U+2D0C", "U+2D0D", "U+2D0E", "U+2D0F",
      "U+2D10", "U+2D11", "U+2D12", "U+2D13", "U+2D14", "U+2D15", "U+2D16", "U+2D17",
      "U+2D18", "U+2D19", "U+2D1A", "U+2D1B", "U+2D1C", "U+2D1D", "U+2D1E", "U+2D1F",
      "U+2D20", "U+2D21", "U+2D22", "U+2D23", "U+2D24", "U+2D25", "U+2D27", "U+2D2D",
      "U+AB70", "U+AB71", "U+AB72", "U+AB73", "U+AB74", "U+AB75", "U+AB76", "U+AB77",
      "U+AB78", "U+AB79", "U+AB7A", "U+AB7B", "U+AB7C", "U+AB7D", "U+AB7E", "U+AB7F",
      "U+1F70", "U+1F71", "U+1F72", "U+1F73", "U+1F74", "U+1F75", "U+1F76", "U+1F77",
      "U+1F7A", "U+1F7B", "U+1F78", "U+1F79", "U+1F7C", "U+1F7D", "U+0265", "U+0266",
      "U+025C", "U+0261", "U+026C", "U+026A", "U+AB53", "U+0264">>

\* The lower-case form of each letter toLowerCase changes.
LowerCaseOf ==
    [c \in {SubSeq(UpperCase, i, i) : i \in 1..Len(UpperCase)}
            \cup {SubSeq(UpperCaseRest, i, i) : i \in 1..Len(UpperCaseRest)} |->
        IF \E k \in 1..Len(UpperCase) : SubSeq(UpperCase, k, k) = c
        THEN LET i == CHOOSE k \in 1..Len(UpperCase) : SubSeq(UpperCase, k, k) = c
             IN SubSeq(LowerCase, i, i)
        ELSE LET i == CHOOSE k \in 1..Len(UpperCaseRest) : SubSeq(UpperCaseRest, k, k) = c
             IN LowerCaseRest[i]]

\* String.prototype.toLowerCase of one character, whatever stands around it.
LowerChar(c) == IF c \in DOMAIN LowerCaseOf THEN LowerCaseOf[c] ELSE c

\* The cased letters that are not case-ignorable, and the case-ignorable
\* characters, of the Unicode case mapping.
CasedLetters ==
    "ABCDEFGHIJKLMNOPQRSTUVWXYZabcdefghijklmnopqrstuvwxyzªµºÀÁÂÃÄ"
    \o "ÅÆÇÈÉÊËÌÍÎÏÐÑÒÓÔÕÖØÙÚÛÜÝÞßàáâãäåæçèéêëìíîïðñòóôõöøùúûüýþÿƀƁƂ"
    \o "ƃƄƅƆƇƈƉƊƋƌƍƎƏƐƑƒƓƔƕƖƗƘƙƚƛƜƝƞƟƠơƢƣƤƥƦƧƨƩƪƫƬƭƮƯưƱƲƳƴƵƶƷƸƹƺƼƽƾƿ"
    \o "ǄǅǆǇǈǉǊǋǌǍǎǏǐǑǒǓǔǕǖǗǘǙǚǛǜǝǞǟǠǡǢǣǤǥǦǧǨǩǪǫǬǭǮǯǰǱǲǳǴǵǶǷǸǹǺǻǼǽǾǿ"
    \o "ʀʁʂʃʄʅʆʇʈʉʊʋʌʍʎʏʐʑʒʓʖʗʘʙʚʛʜʝʞʟʠʡʢʣʤʥʦʧʨʩʪʫʬʭʮʯΆΈΉΊΌΎΏΐΑΒΓΔΕΖ"
    \o "ΗΘΙΚΛΜΝΞΟΠΡΣΤΥΦΧΨΩΪΫάέήίΰαβγδεζηθικλμνξοπρςστυφχψωϊϋόύώϏϐϑϒϓ"
    \o "ϔϕϖϗϘϙϚϛϜϝϞϟϠϡϢϣϤϥϦϧϨϩϪϫϬϭϮϯϰϱϲϳϴϵϷϸϹϺϻϼϽϾϿҀҁҊҋҌҍҎҏҐґҒғҔҕҖҗҘ"
    \o "ҙҚқҜҝҞҟҠҡҢңҤҥҦҧҨҩҪҫҬҭҮүҰұҲҳҴҵҶҷҸҹҺһҼҽҾҿӀӁӂӃӄӅӆӇӈӉӊӋӌӍӎӏӐӑӒӓӔ"
    \o "ӕӖӗӘәӚӛӜӝӞӟӠӡӢӣӤӥӦӧӨөӪӫӬӭӮӯӰӱӲӳӴӵӶӷӸӹӺӻӼӽӾӿրցւփքօֆևֈႠႡႢႣႤႥႦႧ"
    \o "ႨႩႪႫႬႭႮႯႰႱႲႳႴႵႶႷႸႹႺႻႼႽႾႿჀჁჂჃჄჅჇჍაბგდევზთიკლმნოპჟრსტუფქღყშჩცძ"
    \o "წჭხჯჰჱჲჳჴჵჶჷჸჹჺჽჾჿᎠᎡᎢᎣᎤᎥᎦᎧᎨᎩᎪᎫᎬᎭᎮᎯᎰᎱᎲᎳᎴᎵᎶᎷᎸᎹᎺᎻᎼᎽᎾᎿᏀᏁᏂᏃᏄᏅᏆᏇᏈᏉ"
    \o "ᏊᏋᏌᏍᏎᏏᏐᏑᏒᏓᏔᏕᏖᏗᏘᏙᏚᏛᏜᏝᏞᏟᏠᏡᏢᏣᏤᏥᏦᏧᏨᏩᏪᏫᏬᏭᏮᏯᏰᏱᏲᏳᏴᏵᏸᏹᏺᏻᏼᏽᲀᲁᲂᲃᲄᲅᲆᲇᲈᲉ"
    \o "ᲊᲐᲑᲒᲓᲔᲕᲖᲗᲘᲙᲚᲛᲜᲝᲞᲟᲠᲡᲢᲣᲤᲥᲦᲧᲨᲩᲪᲫᲬᲭᲮᲯᲰᲱᲲᲳᲴᲵᲶᲷᲸᲹᲺᲽᲾᲿᶀᶁᶂᶃᶄᶅᶆᶇᶈᶉᶊᶋᶌ"
    \o "ᶍᶎᶏᶐᶑᶒᶓᶔᶕᶖᶗᶘᶙᶚẀẁẂẃẄẅẆẇẈẉẊẋẌẍẎẏẐẑẒẓẔẕẖẗẘẙẚẛẜẝẞẟẠạẢảẤấẦầẨẩẪẫẬậ"
    \o "ẮắẰằẲẳẴẵẶặẸẹẺẻẼẽẾếỀềỂểỄễỆệỈỉỊịỌọỎỏỐốỒồỔổỖỗỘộỚớỜờỞởỠỡỢợỤụỦủỨứ"
    \o "ỪừỬửỮữỰựỲỳỴỵỶỷỸỹỺỻỼỽỾỿᾀᾁᾂᾃᾄᾅᾆᾇᾈᾉᾊᾋᾌᾍᾎᾏᾐᾑᾒᾓᾔᾕᾖᾗᾘᾙᾚᾛᾜᾝᾞᾟᾠᾡᾢᾣᾤᾥ"
    \o "ᾦᾧᾨᾩᾪᾫᾬᾭᾮᾯᾰᾱᾲᾳᾴᾶᾷᾸᾹᾺΆᾼιῂῃῄῆῇῈΈῊΉῌῐῑῒΐῖῗῘῙῚΊῠῡῢΰῤῥῦῧῨῩῪΎῬῲῳῴῶ"
    \o "ῷῸΌῺΏῼↃↄⒶⒷⒸⒹⒺⒻⒼⒽⒾⒿⓀⓁⓂⓃⓄⓅⓆⓇⓈⓉⓊⓋⓌⓍⓎⓏⓐⓑⓒⓓⓔⓕⓖⓗⓘⓙⓚⓛⓜⓝⓞⓟⓠⓡⓢⓣⓤⓥⓦⓧⓨⓩ"
    \o "ⲀⲁⲂⲃⲄⲅⲆⲇⲈⲉⲊⲋⲌⲍⲎⲏⲐⲑⲒⲓⲔⲕⲖⲗⲘⲙⲚⲛⲜⲝⲞⲟⲠⲡⲢⲣⲤⲥⲦⲧⲨⲩⲪⲫⲬⲭⲮⲯⲰⲱⲲⲳⲴⲵⲶⲷⲸⲹⲺⲻ"
    \o "ⲼⲽⲾⲿⳀⳁⳂⳃⳄⳅⳆⳇⳈⳉⳊⳋⳌⳍⳎⳏⳐⳑⳒⳓⳔⳕⳖⳗⳘⳙⳚⳛⳜⳝⳞⳟⳠⳡⳢⳣⳤⳫⳬⳭⳮⳲⳳꚀꚁꚂꚃꚄꚅꚆꚇꚈꚉꚊꚋꚌ"
    \o "ꚍꚎꚏꚐꚑꚒꚓꚔꚕꚖꚗꚘꚙꚚꚛꞀꞁꞂꞃꞄꞅꞆꞇꞋꞌꞍꞎꞐꞑꞒꞓꞔꞕꞖꞗꞘꞙꞚꞛꞜꞝꞞꞟꞠꞡꞢꞣꞤꞥꞦꞧꞨꞩꞪꞫꞬꞭꞮꞯꞰ"
    \o "ꞱꞲꞳꞴꞵꞶꞷꞸꞹꞺꞻꞼꞽꞾꞿꟀꟁꟂꟃꟄꟅꟆꟇꟈꟉꟊꟋꟌꟍ꟎꟏Ꟑꟑ꟒ꟓ꟔ꟕꟖꟗꟘꟙꟚꟛꟜꟵꟶꟺꮀꮁꮂꮃꮄꮅꮆꮇꮈꮉꮊꮋꮌ"
    \o "ꮍꮎꮏꮐꮑꮒꮓꮔꮕꮖꮗꮘꮙꮚꮛꮜꮝꮞꮟꮠꮡꮢꮣꮤꮥꮦꮧꮨꮩꮪꮫꮬꮭꮮꮯꮰꮱꮲꮳꮴꮵꮶꮷꮸꮹꮺꮻꮼꮽꮾꮿ"

CaseIgnorables ==
    "'.:^¨­¯´·¸ʰʱʲʳʴʵʶʷʸʹʺʻʼʽʾʿˀˁ˂˃˄˅ˆˇˈˉˊˋˌˍˎˏːˑ˒˓˔˕˖˗˘˙˚˛˜˝˞˟ˠˡ"
    \o "ˢˣˤ˥˦˧˨˩˪˫ˬ˭ˮ˯˰˱˲˳˴˵˶˷˸˹˺˻˼˽˾˿΄΅·҃҄҅҆҇҈҉֑֖֛֢֣֤֚֒֓֔֕֗֘֙֜֝֞֟֠֡"
    \o "ְֱֲֳִֵֶַָׇֹֺֻּֽֿׁׂ֥֦֧֪ׅ֭֮֨֩֫֬֯ׄ״ۖۗۘۙۚۛۜ۝ۣ۟۠ۡۢۤۥۦ۪ۭۧۨ۫۬ަާިީުޫ"
    \o "ެޭޮޯް߲߫߬߭߮߯߰߱߳ߴߵߺ߽࢈࢐࢑࢙࢚࢛ࢗ࢘࢜࢝࢞࢟ࣉ࣏࣐࣑࣒࣓࣊࣋࣌࣍࣎ࣔࣕࣖࣗࣘࣙࣚࣛࣜࣝࣞࣟ࣠࣡࣢ࣣࣦࣤࣥ"
    \o "ࣰࣱࣲࣩ࣭࣮࣯ࣶࣹࣺࣧࣨ࣪࣫࣬ࣳࣴࣵࣷࣸࣻࣼࣽࣾࣿঁ়ুূৃৄ্ৢৣ৾ઁં઼ુૂૃૄૅેૈ્ૢૣૺૻૼ૽૾૿ஂீ்ಁ಼ಿ"
    \o "ೆೌ್ೢೣඁ්ිීුූັິີຶື຺ຸູົຼໆ່້໊໋໌ໍ໎྄ཱྀྀྂྃ྆྇ྍྎྏྐྑྒྒྷྔྕྖྗྙྚྛྜྜྷྞྟྠྡྡྷྣྤྥ"
    \o "ྦྦྷྨྩྪྫྫྷྭྮྯྰྱྲླྴྵྶྷྸྐྵྺྻྼ࿆ႂႅႆႍႝჼ឴឵ិីឹឺុូួំ៉៊់៌៍៎៏័៑្៓ៗ៝ᢅᢆᢩᪧ᪰᪱᪲"
    \o "᪵᪶᪷᪸᪹᪺᪽᪳᪴᪻᪼᪾ᪿᫀ᫃᫄᫊᫁᫂᫅᫆᫇᫈᫉᫋ᫌᫍᫎ᫏᫐᫑᫒᫓᫔᫕᫖᫗᫘᫙᫚᫛᫜᫝᫠᫡᫢᫣᫤᫥᫦᫧᫨᫩᫪᫫ᮀᮁᮢᮣᮤ"
    \o "ᮥᮨᮩ᮫ᮬᮭ᯦ᯨᯩᯭᯯᯰᯱ᳔᳢᳣᳤᳥᳦᳧᳨᳕᳖᳗᳘᳙᳜᳝᳞᳟᳭᳐᳑᳒᳚᳛᳠᳴᳸᳹ᶛᶜᶝᶞᶟᶠᶡᶢᶣᶤᶥᶦᶧᶨᶩᶪᶫᶬᶭᶮ"
    \o "ᶯᶰᶱᶲᶳᶴᶵᶶᶷᶸᶹᶺᶻᶼᶽᶾᶿ᷐᷎᷂᷊᷏᷀᷁᷃᷄᷅᷆᷇᷈᷉᷋᷌᷑᷒ᷓᷔᷕᷖᷗᷘᷙᷚᷛᷜᷝᷞᷟᷠᷡᷢᷣᷤᷥᷦᷧᷨᷩᷪ᷍"
    \o "᷺᷹᷽᷿᷷᷸ᷫᷬᷭᷮᷯᷰᷱᷲᷳᷴ᷵᷻᷾᷶᷼᾽᾿῀῁῍῎῏῝῞῟῭΅`´῾ₐₑₒₓₔₕₖₗₘₙₚₛₜ⃒⃓⃘⃙⃚⃐⃑⃔⃕⃖⃗"
    \o "⃛⃜⃝⃞⃟⃠⃡⃢⃣⃤⃥⃦⃪⃫゙゚⃨⃬⃭⃮⃯⃧⃩⃰⳯⳰⳱ⷠⷡⷢⷣⷤⷥⷦⷧⷨⷩⷪⷫⷬⷭⷮⷯⷰⷱⷲⷳⷴⷵⷶⷷⷸⷹⷺⷻⷼⷽⷾⷿ゛"
    \o "゜ゝゞーヽヾꓸꓹꓺꓻꓼꓽꚜꚝꚞꚟ꛰꛱ꞈ꞉꞊꟱ꟲꟳꟴꟸꟹ꣄ꣅ꣠꣡꣢꣣꣤꣥꣦꣧꣨꣩꣪꣫꣬꣭꣮꣯꣰꣱ꣿꦀꦁꦂ꦳ꦶꦷꦸꦹꦼꦽꧏꧥ"
    \o "ꧦꪴꪰꪲꪳꪷꪸꪾ꪿꫁ꫝꫬꫭꫳꫴ꫶ꯥꯨ꯭﮲﮳﮴﮵﮶﮷﮸﮹﮺﮻﮼﮽﮾﮿﯀﯁﯂﻿ﾞﾟ￣￹￺￻"

\* The small letters of LowerCaseRest are cased too.
Cased ==
    {SubSeq(CasedLetters, i, i) : i \in 1..Len(CasedLetters)}
    \cup {LowerCaseRest[i] : i \in 1..Len(LowerCaseRest)}

CaseIgnorable == {SubSeq(CaseIgnorables, i, i) : i \in 1..Len(CaseIgnorables)}

\* The condition Final_Sigma of the case mapping for the capital sigma at
\* position i: case-ignorable characters aside, a cased letter stands before
\* it and none after it.
FinalSigma(cs, i) ==
    LET before == { j \in 1..(i - 1) : cs[j] \notin CaseIgnorable }
        after == { j \in (i + 1)..Len(cs) : cs[j] \notin CaseIgnorable }
    IN /\ before # {}
       /\ cs[CHOOSE j \in before : \A k \in before : k <= j] \in Cased
       /\ \/ after = {}
          \/ cs[CHOOSE j \in after : \A k \in after : j <= k] \notin Cased

\* String.prototype.toLowerCase of a string given by its characters: each
\* letter by itself, but for the capital sigma, which becomes the final
\* small sigma at the end of a word.
LowerChars(cs) ==
    [i \in 1..Len(cs) |->
        IF cs[i] = "Σ" /\ FinalSigma(cs, i) THEN "ς" ELSE LowerChar(cs[i])]

\* [1-5]
LevelDigits == {"1", "2", "3", "4", "5"}

\* The word w stands in cs at position i.
StartsAt(cs, i, w) ==
    /\ i + Len(w) - 1 <= Len(cs)
    /\ SubSeq(cs, i, i + Len(w) - 1) = w

\* (falcon|dilithium) at position i: the name matched, <<>> if none.
NameAt(cs, i) ==
    IF StartsAt(cs, i, FalconChars) THEN FalconChars
    ELSE IF StartsAt(cs, i, DilithiumChars) THEN DilithiumChars
    ELSE <<>>

\* [-_ ]?l?([1-5]) from position j: the position of the digit, 0 if no match.
DigitAfter(cs, j) ==
    LET j1 == IF j <= Len(cs) /\ cs[j] \in {"-", "_", " "} THEN j + 1 ELSE j
        j2 == IF j1 <= Len(cs) /\ cs[j1] = "l" THEN j1 + 1 ELSE j1
    IN IF j2 <= Len(cs) /\ cs[j2] \in LevelDigits THEN j2 ELSE 0

\* normalized.match(/(falcon|dilithium)[-_ ]?l?([1-5])/): the two groups of
\* the leftmost match, <<>> if there is none.
ExplicitMatch(cs) ==
    LET at == { i \in 1..Len(cs) :
                  /\ NameAt(cs, i) # <<>>
                  /\ DigitAfter(cs, i + Len(NameAt(cs, i))) # 0 }
    IN IF at = {} THEN <<>>
       ELSE LET i == CHOOSE k \in at : \A j \in at : k <= j
                name == NameAt(cs, i)
            IN <<name, cs[DigitAfter(cs, i + Len(name))]>>

\* normalized.match(/([1-5])/): the first such digit, "" if there is none.
NumericMatch(cs) ==
    LET at == { i \in 1..Len(cs) : cs[i] \in LevelDigits }
    IN IF at = {} THEN ""
       ELSE cs[CHOOSE k \in at : \A j \in at : k <= j]

\* Mutant: the rounded level is not clamped.
DeriveRotationAlgorithmUnclamped(sch, levelHint) ==
    LET defaultAlg == IF sch = "dilithium"
                      THEN DilithiumChars \o <<"-", "l", "3">>
                      ELSE FalconChars \o <<"-", "l", "5">>
    IN IF levelHint.type = "number" /\ levelHint.finite
       THEN SchemeChars(sch) \o <<"-", "l", ToString(Round(levelHint.tenths))>>
       ELSE defaultAlg

\* deriveRotationAlgorithm(scheme, levelHint): the identifier, character by
\* character.
DeriveRotationAlgorithm(sch, levelHint) ==
    LET defaultAlg == IF sch = "dilithium"
                      THEN DilithiumChars \o <<"-", "l", "3">>
                      ELSE FalconChars \o <<"-", "l", "5">>
    IN IF levelHint.type = "number" /\ levelHint.finite
       THEN LET lvl == Clamp(Round(levelHint.tenths))
            IN SchemeChars(sch) \o <<"-", "l", ToString(lvl)>>
       ELSE IF levelHint.type = "string"
       THEN LET normalized == LowerChars(Trim(levelHint.chars))
                explicit == ExplicitMatch(normalized)
                numeric == NumericMatch(normalized)
            IN IF explicit # <<>>
               THEN explicit[1] \o <<"-", "l", explicit[2]>>
               ELSE IF numeric # ""
               THEN SchemeChars(sch) \o <<"-", "l", numeric>>
               ELSE defaultAlg
       ELSE defaultAlg

\* Numeric level hints explored: every tenth from -MaxLevelTenths to
\* MaxLevelTenths.
MaxLevelTenths == 70

\* String level hints explored: an optional prefix, name, separator, l, digit
\* and suffix.
HintStrings ==
    { pre \o name \o sep \o l \o d \o post :
        pre \in {<<>>, <<" ">>, <<"\t">>, <<" ">>, <<"x">>, <<"É">>, <<"Ɓ">>},
        name \in {<<>>, FalconChars, DilithiumChars, <<"F", "a", "l", "c", "o", "n">>,
                  <<"D", "I", "L", "I", "T", "H", "I", "U", "M">>,
                  <<"k", "y", "b", "e", "r">>, <<"Ο", "Σ">>},
        sep \in {<<>>, <<"-">>, <<"_">>, <<" ">>, <<":">>},
        l \in {<<>>, <<"l">>, <<"L">>},
        d \in {<<>>, <<"0">>, <<"1">>, <<"3">>, <<"5">>, <<"6">>},
        post \in {<<>>, <<"2">>, <<"\n">>, <<"">>} }

\* The level hints explored.
LevelHints ==
    {Absent, Null, Bool, NotFinite}
    \cup { Num(t) : t \in (0 - MaxLevelTenths)..MaxLevelTenths }
    \cup { Str(cs) : cs \in HintStrings }

------------------------------------------------------------------------------
(* policy engine *)

\* Mutant: the payload heuristic is tried before the policy preference.
SelectSigSchemeHeuristicFirst(payloadHintBytes, policyPreferredSig, dReach, fReach) ==
    IF ~IsNaN(payloadHintBytes) /\ GtZero(payloadHintBytes)
       /\ LeTight(payloadHintBytes) /\ fReach THEN "falcon"
    ELSE IF policyPreferredSig = "falcon" /\ fReach THEN "falcon"
    ELSE IF policyPreferredSig = "dilithium" /\ dReach THEN "dilithium"
    ELSE IF dReach THEN "dilithium"
    ELSE IF fReach THEN "falcon"
    ELSE "throw"

\* Mutant: the default prefers Falcon.
SelectSigSchemeFalconDefault(payloadHintBytes, policyPreferredSig, dReach, fReach) ==
    IF policyPreferredSig = "falcon" /\ fReach THEN "falcon"
    ELSE IF policyPreferredSig = "dilithium" /\ dReach THEN "dilithium"
    ELSE IF ~IsNaN(payloadHintBytes) /\ GtZero(payloadHintBytes)
            /\ LeTight(payloadHintBytes) /\ fReach THEN "falcon"
    ELSE IF fReach THEN "falcon"
    ELSE IF dReach THEN "dilithium"
    ELSE "throw"

\* Mutant: the policy preference is honoured without looking at health.
SelectSigSchemeBlindPolicy(payloadHintBytes, policyPreferredSig, dReach, fReach) ==
    IF policyPreferredSig = "falcon" THEN "falcon"
    ELSE IF policyPreferredSig = "dilithium" THEN "dilithium"
    ELSE IF ~IsNaN(payloadHintBytes) /\ GtZero(payloadHintBytes)
            /\ LeTight(payloadHintBytes) /\ fReach THEN "falcon"
    ELSE IF dReach THEN "dilithium"
    ELSE IF fReach THEN "falcon"
    ELSE "throw"

\* Mutant: step 5 is missing, the default is returned unconditionally.
SelectSigSchemeNoThrow(payloadHintBytes, policyPreferredSig, dReach, fReach) ==
    IF policyPreferredSig = "falcon" /\ fReach THEN "falcon"
    ELSE IF policyPreferredSig = "dilithium" /\ dReach THEN "dilithium"
    ELSE IF ~IsNaN(payloadHintBytes) /\ GtZero(payloadHintBytes)
            /\ LeTight(payloadHintBytes) /\ fReach THEN "falcon"
    ELSE IF dReach THEN "dilithium"
    ELSE "falcon"

\* selectSigScheme once both firstReachable calls have answered; "throw" is
\* the Error('No signature service reachable').
SelectSigScheme(payloadHintBytes, policyPreferredSig, dReach, fReach) ==
    IF policyPreferredSig = "falcon" /\ fReach THEN "falcon"
    ELSE IF policyPreferredSig = "dilithium" /\ dReach THEN "dilithium"
    ELSE IF ~IsNaN(payloadHintBytes) /\ GtZero(payloadHintBytes)
            /\ LeTight(payloadHintBytes) /\ fReach THEN "falcon"
    ELSE IF dReach THEN "dilithium"
    ELSE IF fReach THEN "falcon"
    ELSE "throw"

\* result.reason
Reason(payloadHintBytes, policyPreferredSig) ==
    IF TruthyPref(policyPreferredSig) THEN "policy:" \o policyPreferredSig
    ELSE IF TruthyHint(payloadHintBytes) /\ LeTight(payloadHintBytes) THEN "payload_tight"
    ELSE "default_or_health"

------------------------------------------------------------------------------
(* errors *)

\* The message of the error fetch rejects with when ctrl.abort() fires after
\* timeoutMs = 4000 ms.
Aborted == <<"This", "operation", "was", "aborted">>

\* Messages of the errors postJSON and getJSON raise: a fetch that is rejected,
\* a fetch that is aborted by the timer, and for an answer that is not ok
\* new Error(json?.error || `${url} -> ${res.status}`), the error the backend
\* names or the status.
CallErrors ==
    { <<"fetch", "failed">>, Aborted, <<"internal", "error">>, <<"backend", "->", "500">> }

\* Messages encapsulate-verified fails with: the errors of postJSON, where
\* the error the backend names may be a failed verification.
EncapErrors ==
    { <<"signature_verification_failed">>,
      <<"Invalid", "signature", "over", "Kyber", "public", "key">> }
    \cup CallErrors

\* The string a message is: its words with a space between them.
Join(msg) ==
    LET joined[i \in 0..Len(msg)] ==
            IF i = 0 THEN ""
            ELSE IF i = 1 THEN msg[1]
            ELSE joined[i - 1] \o " " \o msg[i]
    IN joined[Len(msg)]

\* err.message.toLowerCase(): the characters of the lowered message
ToLowerCase(msg) == LowerChars(Characters(Join(msg)))

\* String.prototype.includes: the characters of needle stand in msg, one
\* after the other.
Includes(msg, needle) ==
    \E i \in 1..(Len(msg) - Len(needle) + 1) :
        SubSeq(msg, i, i + Len(needle) - 1) = Characters(needle)

IsSignatureVerificationError(message) ==
    LET msg == ToLowerCase(message) IN
        \/ Includes(msg, "signature_verification_failed")
        \/ Includes(msg, "signature verification failed")
        \/ Includes(msg, "signature mismatch")
        \/ Includes(msg, "invalid signature")

\* isSignatureVerificationError on each message encapsulate-verified fails
\* with.
SignatureVerificationError ==
    [e \in EncapErrors |-> IsSignatureVerificationError(e)]

NoSigService == <<"No", "signature", "service", "reachable">>
KyberUnreachable == <<"Kyber", "unreachable">>
SchemeUnreachable(s) == <<s, "unreachable">>
NoStrategy == <<"No", "signature", "strategy", "succeeded">>
\* The message of the TypeError the engine raises on reading a property of
\* an answer that is the JSON null.
TypeErrorMsg(property) ==
    <<"Cannot", "read", "properties", "of", "null", "(reading", "'" \o property \o "')">>

\* The message of the TypeError raised on destructuring an answer that is the
\* JSON null.
DestructureErrorMsg ==
    <<"Cannot", "destructure", "property", "'publicKey'", "of", "'(intermediate",
      "value)'", "as", "it", "is", "null.">>

ErrorCode == 502

NoReply == [code |-> 0]

\* Mutant: the catch block answers 500.
CatchReply500(message) ==
    [code |-> 500,
     body |-> [error |-> "select_ake_failed",
               detail |-> IF message # <<>> THEN message ELSE <<"Error">>]]

\* The catch block of the handler: e?.message || String(e).
CatchReply(message) ==
    [code |-> ErrorCode,
     body |-> [error |-> "select_ake_failed",
               detail |-> IF message # <<>> THEN message ELSE <<"Error">>]]

\* throw inside the handler's try
Throw(message) ==
    /\ pc' = "failed"
    /\ reply' = CatchReply(message)

------------------------------------------------------------------------------
(* POST /select/ake *)

NoCtx == [source |-> Undefined]
NoRes == [status |-> "none"]

\* No call of probe is followed on its own.
NoProbe == [res |-> [kind |-> "none", status |-> 0], returned |-> "pending"]

\* GET /health before its first await: kb, db, fb and rb are not yet bound.
\* `let current;` of the rotation strategy
NoCurrent == [publicKey |-> Undefined]

NoHealth == [kb |-> NoBase, db |-> NoBase, fb |-> NoBase, rb |-> NoBase]

\* The request bodies explored.
Requests ==
    { [payloadHintBytes |-> h, policyPreferredSig |-> p, level |-> Absent] :
        h \in HintValues, p \in PrefValues }

\* The body {}
EmptyRequest ==
    [payloadHintBytes |-> HUndef, policyPreferredSig |-> Undefined, level |-> Absent]

\* Bodies with a level and nothing else: null, 5, 0.4, "falcon-l5", "l6".
BodyLevels ==
    {Null, Num(50), Num(4), Str(FalconChars \o <<"-", "l", "5">>), Str(<<"l", "6">>)}

LevelRequests == { [EmptyRequest EXCEPT !.level = l] : l \in BodyLevels }

\* What the signer endpoint of the signature backends reports next to the
\* key, for the bodies that leave the level to it.
SignerMetas ==
    { [NoSignerInfo EXCEPT !.level = Num(20)],
      [NoSignerInfo EXCEPT !.alg = Str(FalconChars \o <<"-", "l", "1">>)],
      [level |-> Null, alg |-> Absent, algorithm |-> Str(DilithiumChars \o <<"_", "4">>)] }

\* Backend faults explored for one request: a failed call, an answer without
\* a field the handler reads, a wrong secret.  An unreachable backend is no
\* fault, nor is a first current-key query that finds no key, nor a
\* verification error for a signature that does not verify.
MaxFaults == 2

\* Probes left unanswered during one request: any number (five
\* firstReachable calls go through a list each), or as many as one list has
\* candidates.
AllDown == 5 * NumBases
OneDown == NumBases

Start(requests, metas, faults, downs) ==
    /\ pc = "idle"
    /\ req \in requests
    /\ awaiting = {}
    /\ dBase = NoBase /\ fBase = NoBase
    /\ scheme = Undefined
    /\ kyberBase = NoBase /\ sigBase = NoBase /\ rotationBase = NoBase
    /\ kp = [publicKey |-> Undefined, secretKey |-> Undefined]
    /\ signer = Undefined
    /\ strategies = <<>>
    /\ idx = 0
    /\ ctx = NoCtx
    /\ lastSigError = <<>>
    /\ encapRes = NoRes
    /\ ctxForDecap = NoCtx
    /\ decapRes = NoRes
    /\ reply = NoReply
    /\ calls = <<>>
    /\ tried = NoneTried /\ current = NoCurrent
    /\ open = <<>> /\ deriving = NoDerive /\ signerMeta \in metas
    /\ health = NoHealth
    /\ probing = NoProbe
    /\ level = Absent /\ signerInfo = NoSignerInfo /\ rotationAlg = <<>>
    /\ faultsLeft = faults
    /\ downsLeft = downs

\* A GET /health request arrives.
HealthStart ==
    /\ pc = "healthKyber"
    /\ req = EmptyRequest
    /\ awaiting = {"kyber"}
    /\ dBase = NoBase /\ fBase = NoBase
    /\ scheme = Undefined
    /\ kyberBase = NoBase /\ sigBase = NoBase /\ rotationBase = NoBase
    /\ kp = [publicKey |-> Undefined, secretKey |-> Undefined]
    /\ signer = Undefined
    /\ strategies = <<>>
    /\ idx = 0
    /\ ctx = NoCtx
    /\ lastSigError = <<>>
    /\ encapRes = NoRes
    /\ ctxForDecap = NoCtx
    /\ decapRes = NoRes
    /\ reply = NoReply
    /\ calls = <<>>
    /\ tried = NoneTried /\ current = NoCurrent
    /\ open = <<>> /\ deriving = NoDerive /\ signerMeta = NoSignerInfo
    /\ health = NoHealth
    /\ probing = NoProbe
    /\ level = Absent /\ signerInfo = NoSignerInfo /\ rotationAlg = <<>>
    /\ faultsLeft = 0
    /\ downsLeft = AllDown

\* A call of probe(base), for every outcome of its fetch.
ProbeStart ==
    /\ pc = "probe"
    /\ probing \in { [res |-> o, returned |-> "pending"] : o \in FetchOutcomes }
    /\ level = Absent /\ signerInfo = NoSignerInfo /\ rotationAlg = <<>>
    /\ req = EmptyRequest
    /\ awaiting = {}
    /\ dBase = NoBase /\ fBase = NoBase
    /\ scheme = Undefined
    /\ kyberBase = NoBase /\ sigBase = NoBase /\ rotationBase = NoBase
    /\ kp = [publicKey |-> Undefined, secretKey |-> Undefined]
    /\ signer = Undefined
    /\ strategies = <<>>
    /\ idx = 0
    /\ ctx = NoCtx
    /\ lastSigError = <<>>
    /\ encapRes = NoRes
    /\ ctxForDecap = NoCtx
    /\ decapRes = NoRes
    /\ reply = NoReply
    /\ calls = <<>>
    /\ tried = NoneTried /\ current = NoCurrent
    /\ open = <<>> /\ deriving = NoDerive /\ signerMeta = NoSignerInfo
    /\ health = NoHealth
    /\ faultsLeft = 0
    /\ downsLeft = AllDown

\* deriveRotationAlgorithm is about to be called on its own.
DeriveStart ==
    /\ pc = "derive"
    /\ scheme = Undefined
    /\ level = Absent /\ signerInfo = NoSignerInfo
    /\ rotationAlg = <<>>
    /\ req = EmptyRequest
    /\ awaiting = {}
    /\ dBase = NoBase /\ fBase = NoBase
    /\ kyberBase = NoBase /\ sigBase = NoBase /\ rotationBase = NoBase
    /\ kp = [publicKey |-> Undefined, secretKey |-> Undefined]
    /\ signer = Undefined
    /\ strategies = <<>>
    /\ idx = 0
    /\ ctx = NoCtx
    /\ lastSigError = <<>>
    /\ encapRes = NoRes
    /\ ctxForDecap = NoCtx
    /\ decapRes = NoRes
    /\ reply = NoReply
    /\ calls = <<>>
    /\ tried = NoneTried /\ current = NoCurrent
    /\ open = <<>> /\ deriving = NoDerive /\ signerMeta = NoSignerInfo
    /\ health = NoHealth
    /\ probing = NoProbe
    /\ faultsLeft = 0
    /\ downsLeft = AllDown

\* Every /select/ake body without a level, and the bodies with a level or a
\* signer that reports one, with backends that answer as their interface says
\* (and come and go at will); the empty body with backends that also fail,
\* while no more candidates are down than one list has; a GET /health
\* request; a call of probe; a call of deriveRotationAlgorithm.
Init ==
    \/ Start(Requests, {NoSignerInfo}, 0, AllDown)
    \/ Start(LevelRequests, {NoSignerInfo}, 0, AllDown)
    \/ Start({EmptyRequest}, SignerMetas, 0, AllDown)
    \/ Start({EmptyRequest}, {NoSignerInfo}, MaxFaults, OneDown)
    \/ HealthStart
    \/ ProbeStart
    \/ DeriveStart

\* The environment answers with a fault of cost c.
Pay(c) == c <= faultsLeft /\ faultsLeft' = faultsLeft - c

\* One turn of `for (const b of bases) if (await probe(b)) return b` on the
\* list `to`: the probe of the candidate is made and answers ok.
ProbeNext(to, ok) ==
    /\ calls' = calls \o ProbeCall(to, ok)
    /\ tried' = Tried(to, ok)
    /\ ok \/ downsLeft > 0
    /\ downsLeft' = IF ok THEN downsLeft ELSE downsLeft - 1

\* The probe of candidate n of the list `to`, sent and not yet answered.
Sent(to, n) == [to |-> to, base |-> n]

\* The probes open after the open probe of the list `to` answered ok: when
\* firstReachable goes on, the probe of its next candidate is sent in the
\* same turn.
OpenAfter(to, ok) ==
    SelectSeq(open, LAMBDA o : o.to # to)
        \o (IF Returns(to, ok) THEN <<>> ELSE <<Sent(to, Candidate(to) + 1)>>)

\* The request arrives: the body is destructured and selectSigScheme calls
\* firstReachable(DILITHIUM_BASES) and firstReachable(FALCON_BASES), each of
\* which sends the probe of its first candidate before the handler yields.
Receive ==
    /\ pc = "idle"
    /\ pc' = "select"
    /\ level' = req.level
    /\ awaiting' = Schemes
    /\ open' = <<Sent("dilithium", 1), Sent("falcon", 1)>>
    /\ UNCHANGED <<downsLeft, deriving, signerMeta, tried, current, signerInfo, rotationAlg, probing, health, req, dBase, fBase, scheme, kyberBase, sigBase, rotationBase, kp,
                   signer, strategies, idx, ctx, lastSigError, encapRes,
                   ctxForDecap, decapRes, reply, calls, faultsLeft>>

\* The open probe of firstReachable(DILITHIUM_BASES) is answered, before or
\* after the open probe of the Falcon list: the loop returns or sends the
\* probe of its next candidate.
ProbeDilithium ==
    /\ pc = "select" /\ "dilithium" \in awaiting
    /\ \E ok \in BOOLEAN :
         /\ ProbeNext("dilithium", ok)
         /\ open' = OpenAfter("dilithium", ok)
         /\ IF Returns("dilithium", ok)
            THEN /\ dBase' = FirstReachable("dilithium", ok)
                 /\ awaiting' = awaiting \ {"dilithium"}
            ELSE UNCHANGED <<dBase, awaiting>>
    /\ UNCHANGED <<deriving, signerMeta, current, level, signerInfo, rotationAlg, probing, health,
                   pc, req, fBase, scheme, kyberBase, sigBase, rotationBase,
                   kp, signer, strategies, idx, ctx, lastSigError, encapRes,
                   ctxForDecap, decapRes, reply, faultsLeft>>

\* The open probe of firstReachable(FALCON_BASES) is answered, before or
\* after the open probe of the Dilithium list.
ProbeFalcon ==
    /\ pc = "select" /\ "falcon" \in awaiting
    /\ \E ok \in BOOLEAN :
         /\ ProbeNext("falcon", ok)
         /\ open' = OpenAfter("falcon", ok)
         /\ IF Returns("falcon", ok)
            THEN /\ fBase' = FirstReachable("falcon", ok)
                 /\ awaiting' = awaiting \ {"falcon"}
            ELSE UNCHANGED <<fBase, awaiting>>
    /\ UNCHANGED <<deriving, signerMeta, current, level, signerInfo, rotationAlg, probing, health,
                   pc, req, dBase, scheme, kyberBase, sigBase, rotationBase,
                   kp, signer, strategies, idx, ctx, lastSigError, encapRes,
                   ctxForDecap, decapRes, reply, faultsLeft>>

\* Mutant: the decision is taken on the first answer, the other backend
\* counting as unreachable.
SelectOnFirstAnswer ==
    /\ pc = "select" /\ awaiting # Schemes
    /\ LET s == SelectSigScheme(req.payloadHintBytes, req.policyPreferredSig,
                                dBase # NoBase, fBase # NoBase)
       IN IF s = "throw"
          THEN Throw(NoSigService) /\ UNCHANGED scheme
          ELSE scheme' = s /\ pc' = "resolveKyber" /\ UNCHANGED reply
    /\ UNCHANGED <<downsLeft, open, deriving, signerMeta, tried, current, level, signerInfo, rotationAlg, probing, health, req, awaiting, dBase, fBase, kyberBase, sigBase, rotationBase,
                   kp, signer, strategies, idx, ctx, lastSigError, encapRes,
                   ctxForDecap, decapRes, calls, faultsLeft>>

\* Promise.all has both answers: steps 2-5 of selectSigScheme.
Select ==
    /\ pc = "select" /\ awaiting = {}
    /\ LET s == SelectSigScheme(req.payloadHintBytes, req.policyPreferredSig,
                                dBase # NoBase, fBase # NoBase)
       IN IF s = "throw"
          THEN Throw(NoSigService) /\ UNCHANGED scheme
          ELSE scheme' = s /\ pc' = "resolveKyber" /\ UNCHANGED reply
    /\ UNCHANGED <<downsLeft, open, deriving, signerMeta, tried, current, level, signerInfo, rotationAlg, probing, health, req, awaiting, dBase, fBase, kyberBase, sigBase, rotationBase,
                   kp, signer, strategies, idx, ctx, lastSigError, encapRes,
                   ctxForDecap, decapRes, calls, faultsLeft>>

\* Mutant: the handler does not check kyberBase.
ResolveKyberUnchecked ==
    /\ pc = "resolveKyber"
    /\ \E ok \in BOOLEAN :
         /\ ProbeNext("kyber", ok)
         /\ IF Returns("kyber", ok)
            THEN kyberBase' = FirstReachable("kyber", ok) /\ pc' = "resolveSig"
            ELSE UNCHANGED <<kyberBase, pc>>
    /\ UNCHANGED <<open, deriving, signerMeta, current, level, signerInfo, rotationAlg, probing, health,
                   req, awaiting, dBase, fBase, scheme, sigBase, rotationBase,
                   kp, signer, strategies, idx, ctx, lastSigError, encapRes,
                   ctxForDecap, decapRes, reply, faultsLeft>>

\* One probe of kyberBase = await firstReachable(KYBER_BASES), and when the
\* call returns: if (!kyberBase) throw new Error('Kyber unreachable')
ResolveKyber ==
    /\ pc = "resolveKyber"
    /\ \E ok \in BOOLEAN :
         /\ ProbeNext("kyber", ok)
         /\ IF Returns("kyber", ok)
            THEN /\ kyberBase' = FirstReachable("kyber", ok)
                 /\ IF kyberBase' = NoBase
                    THEN Throw(KyberUnreachable)
                    ELSE pc' = "resolveSig" /\ UNCHANGED reply
            ELSE UNCHANGED <<kyberBase, pc, reply>>
    /\ UNCHANGED <<open, deriving, signerMeta, current, level, signerInfo, rotationAlg, probing, health,
                   req, awaiting, dBase, fBase, scheme, sigBase, rotationBase,
                   kp, signer, strategies, idx, ctx, lastSigError, encapRes,
                   ctxForDecap, decapRes, faultsLeft>>

\* Mutant: the handler does not check sigBase.
ResolveSigUnchecked ==
    /\ pc = "resolveSig"
    /\ \E ok \in BOOLEAN :
         /\ ProbeNext(scheme, ok)
         /\ IF Returns(scheme, ok)
            THEN sigBase' = FirstReachable(scheme, ok) /\ pc' = "keypair"
            ELSE UNCHANGED <<sigBase, pc>>
    /\ UNCHANGED <<open, deriving, signerMeta, current, level, signerInfo, rotationAlg, probing, health,
                   req, awaiting, dBase, fBase, scheme, kyberBase,
                   rotationBase, kp, signer, strategies, idx, ctx,
                   lastSigError, encapRes, ctxForDecap, decapRes, reply,
                   faultsLeft>>

\* One probe of
\* sigBase = await firstReachable(scheme === 'dilithium' ? DILITHIUM_BASES : FALCON_BASES),
\* and when the call returns: if (!sigBase) throw new Error(`${scheme} unreachable`)
ResolveSig ==
    /\ pc = "resolveSig"
    /\ \E ok \in BOOLEAN :
         /\ ProbeNext(scheme, ok)
         /\ IF Returns(scheme, ok)
            THEN /\ sigBase' = FirstReachable(scheme, ok)
                 /\ IF sigBase' = NoBase
                    THEN Throw(SchemeUnreachable(scheme))
                    ELSE pc' = "keypair" /\ UNCHANGED reply
            ELSE UNCHANGED <<sigBase, pc, reply>>
    /\ UNCHANGED <<open, deriving, signerMeta, current, level, signerInfo, rotationAlg, probing, health,
                   req, awaiting, dBase, fBase, scheme, kyberBase,
                   rotationBase, kp, signer, strategies, idx, ctx,
                   lastSigError, encapRes, ctxForDecap, decapRes, faultsLeft>>

\* A call that raised: its error message.
Raised(errors) == { [ok |-> FALSE, error |-> e] : e \in errors }

Answered(a) == a.ok

\* How a call ended: it answered, or it raised an error.
Outcome(a) == IF Answered(a) THEN [ok |-> TRUE] ELSE [ok |-> FALSE, error |-> a.error]

\* What /kyber/generate-keypair answers with (fields may be missing).
KeypairAnswers ==
    { [ok |-> TRUE, publicKey |-> "pkGen", secretKey |-> "skGen"],
      [ok |-> TRUE, publicKey |-> "pkGen", secretKey |-> Undefined],
      [ok |-> TRUE, publicKey |-> Undefined, secretKey |-> Undefined] }
    \cup Raised(CallErrors \cup {DestructureErrorMsg})

KeypairCost(a) == IF Answered(a) /\ a.secretKey # Undefined THEN 0 ELSE 1

\* { publicKey, secretKey } = await postJSON(`${kyberBase}/kyber/generate-keypair`, {})
GenerateKeypair ==
    /\ pc = "keypair"
    /\ \E a \in KeypairAnswers :
         /\ calls' = calls \o Exchange("kyber", "generate-keypair", kyberBase, Outcome(a))
         /\ Pay(KeypairCost(a))
         /\ IF Answered(a)
            THEN /\ kp' = [publicKey |-> a.publicKey, secretKey |-> a.secretKey]
                 /\ pc' = "signer"
                 /\ UNCHANGED reply
            ELSE Throw(a.error) /\ UNCHANGED kp
    /\ UNCHANGED <<downsLeft, open, deriving, signerMeta, tried, current, level, signerInfo, rotationAlg, probing, health, req, awaiting, dBase, fBase, scheme, kyberBase, sigBase,
                   rotationBase, signer, strategies, idx, ctx, lastSigError,
                   encapRes, ctxForDecap, decapRes>>

\* What /orchestrator/signer answers with: the first public-key alias present.
SignerAnswers ==
    { [ok |-> TRUE, publicKey |-> k] : k \in {"svcPk", Undefined} }
    \cup Raised({<<"fetch", "failed">>, <<"Unexpected", "token">>, TypeErrorMsg("signerPublicKey")})

SignerCost(a) == IF Answered(a) /\ a.publicKey # Undefined THEN 0 ELSE 1

\* Mutant: a failed fetch leaves the signer metadata empty and the handler
\* goes on.
FetchSignerTolerant ==
    /\ pc = "signer"
    /\ \E a \in SignerAnswers :
         /\ calls' = calls \o Exchange(scheme, "signer", sigBase, [ok |-> Answered(a)])
         /\ Pay(SignerCost(a))
         /\ signer' = IF Answered(a) THEN a.publicKey ELSE Undefined
         /\ signerInfo' = IF Answered(a) THEN signerMeta ELSE NoSignerInfo
         /\ pc' = "resolveRotation"
         /\ UNCHANGED reply
    /\ UNCHANGED <<downsLeft, open, deriving, signerMeta, tried, current, level, rotationAlg, probing, health, req, awaiting, dBase,
                   fBase, scheme, kyberBase, sigBase, rotationBase, kp, strategies, idx,
                   ctx, lastSigError, encapRes, ctxForDecap, decapRes>>

\* signerInfo = await fetch(`${sigBase}/orchestrator/signer`).then(r => r.json()),
\* of which the signer key and the level, alg and algorithm are kept.
FetchSigner ==
    /\ pc = "signer"
    /\ \E a \in SignerAnswers :
         /\ calls' = calls \o Exchange(scheme, "signer", sigBase, [ok |-> Answered(a)])
         /\ Pay(SignerCost(a))
         /\ IF Answered(a)
            THEN /\ signer' = a.publicKey
                 /\ signerInfo' = signerMeta
                 /\ pc' = "resolveRotation"
                 /\ UNCHANGED reply
            ELSE Throw(a.error) /\ UNCHANGED <<signer, signerInfo>>
    /\ UNCHANGED <<downsLeft, open, deriving, signerMeta, tried, current, level, rotationAlg, probing, health, req, awaiting, dBase, fBase, scheme, kyberBase, sigBase,
                   rotationBase, kp, strategies, idx, ctx, lastSigError,
                   encapRes, ctxForDecap, decapRes>>

\* Mutant: direct signing is pushed twice.
StrategiesDirectTwice(rb) ==
    (IF rb # NoBase THEN <<"rotation">> ELSE <<>>) \o <<"direct", "direct", "bootstrap">>

\* Mutant: with a rotation backend no other strategy is pushed.
StrategiesRotationOnly(rb) ==
    IF rb # NoBase THEN <<"rotation">> ELSE <<"direct", "bootstrap">>

\* Mutant: bootstrap is pushed before direct signing.
StrategiesBootstrapFirst(rb) ==
    (IF rb # NoBase THEN <<"rotation">> ELSE <<>>) \o <<"bootstrap", "direct">>

\* signatureStrategies, as pushed
Strategies(rb) ==
    (IF rb # NoBase THEN <<"rotation">> ELSE <<>>) \o <<"direct", "bootstrap">>

\* The level hints a request can come to: the level of its body, else what
\* the signer reports.
RequestHints ==
    { BaseSignerLevel(r.level, m) :
        r \in Requests \cup LevelRequests, m \in SignerMetas \cup {NoSignerInfo} }

\* deriveRotationAlgorithm, tabulated over the schemes and these hints.
RotationAlgorithm ==
    [s \in Schemes, h \in RequestHints |-> DeriveRotationAlgorithm(s, h)]

\* One probe of rotationBase = await firstReachable(KEYROTATION_BASES), and
\* when the call returns: the rotation algorithm is derived, the strategies
\* are pushed and the loop starts.
ResolveRotation ==
    /\ pc = "resolveRotation"
    /\ \E ok \in BOOLEAN :
         /\ ProbeNext("rotation", ok)
         /\ IF Returns("rotation", ok)
            THEN /\ rotationBase' = FirstReachable("rotation", ok)
                 /\ rotationAlg' = RotationAlgorithm[
                                       scheme, BaseSignerLevel(level, signerInfo)]
                 /\ strategies' = Strategies(rotationBase')
                 /\ idx' = 1
                 /\ pc' = "strategy"
            ELSE UNCHANGED <<rotationBase, rotationAlg, strategies, idx, pc>>
    /\ UNCHANGED <<open, deriving, signerMeta, current, level, signerInfo, probing, health, req, awaiting,
                   dBase, fBase, scheme, kyberBase, sigBase, kp, signer, ctx,
                   lastSigError, encapRes, ctxForDecap, decapRes, reply,
                   faultsLeft>>

------------------------------------------------------------------------------
(* the strategy loop *)

\* a || b
Or(a, b) == IF a # Undefined /\ a # "" THEN a ELSE b

\* Mutant: the secret key is not looked at.
IncompleteWithoutSecretKey(c) ==
    \/ Or(c.signature, Undefined) = Undefined
    \/ Or(c.signerPublicKey, Undefined) = Undefined
    \/ Or(c.kyberPublicKey, Undefined) = Undefined

\* !ctx?.signature || !ctx.signerPublicKey || !ctx.kyberPublicKey || !ctx.kyberSecretKey
Incomplete(c) ==
    \/ Or(c.signature, Undefined) = Undefined
    \/ Or(c.signerPublicKey, Undefined) = Undefined
    \/ Or(c.kyberPublicKey, Undefined) = Undefined
    \/ Or(c.kyberSecretKey, Undefined) = Undefined

\* Mutant: the handler returns a result without a secret.
ExhaustedReturns(lse) ==
    /\ pc' = "done"
    /\ reply' = [code |-> 200,
                 body |-> [status |-> "mismatch", schemeSelected |-> scheme,
                           reason |-> "default_or_health",
                           sharedSecretMatch |-> FALSE]]

\* The loop is left:
\* if (!encapRes || !ctxForDecap) throw lastSigError ?? new Error('No signature strategy succeeded')
Exhausted(lse) == Throw(IF lse # <<>> THEN lse ELSE NoStrategy)

\* Mutant: the error of a strategy is rethrown by the loop.
ContinueRethrows(lse) ==
    /\ Throw(<<"fetch", "failed">>)
    /\ UNCHANGED <<lastSigError, ctx, idx>>

\* `continue`: the next strategy, or the end of the loop.
Continue(lse) ==
    /\ lastSigError' = lse
    /\ ctx' = NoCtx
    /\ idx' = idx + 1
    /\ IF idx < Len(strategies)
       THEN pc' = "strategy" /\ UNCHANGED reply
       ELSE Exhausted(lse)

\* A strategy returned c: the completeness check, then the payload is posted.
Submit(c) ==
    IF Incomplete(c)
    THEN Continue(lastSigError)
    ELSE ctx' = c /\ pc' = "encap" /\ UNCHANGED <<idx, lastSigError, reply>>

\* A call that raised, whatever the error: the strategies do not read it.
Failed == [ok |-> FALSE]

\* What the rotation backend answers a current-key query and a sign call with.
CurrentAnswers ==
    { [ok |-> TRUE, publicKey |-> "rotPkCur"], [ok |-> TRUE, publicKey |-> Undefined], Failed }

RotationSignAnswers ==
    { [ok |-> TRUE, signature |-> "sigRot", publicKey |-> "rotPkSign"],
      [ok |-> TRUE, signature |-> "sigRot", publicKey |-> Undefined],
      [ok |-> TRUE, signature |-> Undefined, publicKey |-> Undefined],
      Failed }

\* A sign or bootstrap answer the strategy makes no context of.
NoSignature(s) == ~s.ok \/ s.signature = Undefined

\* The answer has every field the strategies read.
Full(s) == \A f \in DOMAIN s \ {"ok"} : s[f] # Undefined

SignCost(s) == IF ~NoSignature(s) /\ Full(s) THEN 0 ELSE 1

\* A first current-key query that fails finds no key yet; a second one has
\* the key just rotated in.
CurrentCost(c, first) ==
    IF c.ok THEN (IF Full(c) THEN 0 ELSE 1)
    ELSE IF first THEN 0 ELSE 1

\* The positions of the strategies: the start of one, and the awaits of the
\* rotation-backed one.
StrategyPcs == {"strategy", "rotationRotate", "rotationRequery", "rotationSign"}

\* What the strategy keeps of a current-key answer.
Current(c) == [publicKey |-> c.publicKey]

\* Mutant: the key is rotated whatever the first query answered.
AfterQueryAlwaysRotate(c) == "rotationRotate"

\* try { current = await getJSON(...) } catch (err) { ... }: the catch block
\* is entered when the first query failed, the sign call is next otherwise.
AfterQuery(c) == IF c.ok THEN "rotationSign" ELSE "rotationRotate"

\* The rotation-backed strategy starts:
\* current = await getJSON(`${rotationBase}/orchestrator/keys/current?alg=...`)
\* A first query that finds no key is no fault.
RotationCurrent ==
    /\ pc = "strategy" /\ strategies[idx] = "rotation"
    /\ \E c \in CurrentAnswers :
         /\ calls' = calls \o Exchange("rotation", "keys/current", rotationBase,
                                       [ok |-> c.ok])
         /\ current' = IF c.ok THEN Current(c) ELSE NoCurrent
         /\ pc' = AfterQuery(c)
         /\ Pay(CurrentCost(c, TRUE))
    /\ UNCHANGED <<downsLeft, open, deriving, signerMeta, tried, level, signerInfo, rotationAlg, probing, health, req,
                   awaiting, dBase, fBase, scheme, kyberBase, sigBase,
                   rotationBase, kp, signer, strategies, idx, ctx,
                   lastSigError, encapRes, ctxForDecap, decapRes, reply>>

\* In the catch block: await postJSON(`${rotationBase}/keys/rotate`, ...); an
\* error leaves the strategy.
RotationRotate ==
    /\ pc = "rotationRotate"
    /\ \E rot \in BOOLEAN :
         /\ calls' = calls \o Exchange("rotation", "keys/rotate", rotationBase,
                                       [ok |-> rot])
         /\ IF rot
            THEN /\ pc' = "rotationRequery"
                 /\ UNCHANGED <<faultsLeft, idx, ctx, lastSigError, reply>>
            ELSE Pay(1) /\ Continue(lastSigError)
    /\ current' = NoCurrent
    /\ UNCHANGED <<downsLeft, open, deriving, signerMeta, tried, level, signerInfo, rotationAlg, probing, health, req,
                   awaiting, dBase, fBase, scheme, kyberBase, sigBase,
                   rotationBase, kp, signer, strategies, encapRes, ctxForDecap,
                   decapRes>>

\* In the catch block, after the rotation: current = await getJSON(...) again;
\* an error leaves the strategy.
RotationRequery ==
    /\ pc = "rotationRequery"
    /\ \E c \in CurrentAnswers :
         /\ calls' = calls \o Exchange("rotation", "keys/current", rotationBase,
                                       [ok |-> c.ok])
         /\ Pay(CurrentCost(c, FALSE))
         /\ IF c.ok
            THEN /\ current' = Current(c)
                 /\ pc' = "rotationSign"
                 /\ UNCHANGED <<idx, ctx, lastSigError, reply>>
            ELSE Continue(lastSigError) /\ UNCHANGED current
    /\ UNCHANGED <<downsLeft, open, deriving, signerMeta, tried, level, signerInfo, rotationAlg, probing, health, req,
                   awaiting, dBase, fBase, scheme, kyberBase, sigBase,
                   rotationBase, kp, signer, strategies, encapRes, ctxForDecap,
                   decapRes>>

\* signResp = await postJSON(`${rotationBase}/sign`, ...), the signature and
\* the first usable public key: the context the strategy returns.
RotationSign ==
    /\ pc = "rotationSign"
    /\ \E s \in RotationSignAnswers :
         /\ Pay(SignCost(s))
         /\ calls' = calls \o Call("rotation", "sign", rotationBase)
         /\ IF ~NoSignature(s)
            THEN Submit([source |-> "rotation",
                         signature |-> s.signature,
                         signerPublicKey |-> Or(s.publicKey,
                                                Or(current.publicKey, signer)),
                         kyberPublicKey |-> kp.publicKey,
                         kyberSecretKey |-> kp.secretKey])
            ELSE Continue(lastSigError)
    /\ current' = NoCurrent
    /\ UNCHANGED <<downsLeft, open, deriving, signerMeta, tried, level, signerInfo, rotationAlg, probing, health, req,
                   awaiting, dBase, fBase, scheme, kyberBase, sigBase,
                   rotationBase, kp, signer, strategies, encapRes, ctxForDecap,
                   decapRes>>

DirectSignAnswers ==
    { [ok |-> TRUE, signature |-> "sigDirect", publicKey |-> "signPk"],
      [ok |-> TRUE, signature |-> "sigDirect", publicKey |-> Undefined],
      [ok |-> TRUE, signature |-> Undefined, publicKey |-> Undefined],
      Failed }

\* The direct strategy: the signature backend's own sign endpoint.
DirectStrategy ==
    /\ pc = "strategy" /\ strategies[idx] = "direct"
    /\ calls' = calls \o Call(scheme, "sign", sigBase)
    /\ \E s \in DirectSignAnswers :
         /\ Pay(SignCost(s))
         /\ IF ~NoSignature(s)
            THEN Submit([source |-> "direct",
                         signature |-> s.signature,
                         signerPublicKey |-> Or(s.publicKey, signer),
                         kyberPublicKey |-> kp.publicKey,
                         kyberSecretKey |-> kp.secretKey])
            ELSE Continue(lastSigError)
    /\ UNCHANGED <<downsLeft, open, deriving, signerMeta, tried, current, level, signerInfo, rotationAlg, probing, health, req, awaiting, dBase, fBase, scheme, kyberBase, sigBase,
                   rotationBase, kp, signer, strategies, encapRes, ctxForDecap,
                   decapRes>>

BootstrapAnswers ==
    { [ok |-> TRUE, signature |-> "sigBoot", publicKey |-> pk,
       kyberPublicKey |-> kpk, kyberSecretKey |-> ksk] :
         pk \in {"bootPk", Undefined}, kpk \in {"pkBoot", Undefined},
         ksk \in {"skBoot", Undefined} }
    \cup { [ok |-> TRUE, signature |-> Undefined, publicKey |-> Undefined,
            kyberPublicKey |-> Undefined, kyberSecretKey |-> Undefined],
           Failed }

\* Mutant: the generated keypair is kept.
BootstrapContextKeepsGenerated(b) ==
    [source |-> "bootstrap",
     signature |-> b.signature,
     signerPublicKey |-> Or(b.publicKey, signer),
     kyberPublicKey |-> kp.publicKey,
     kyberSecretKey |-> kp.secretKey]

\* The context the bootstrap strategy returns on the answer b.
BootstrapContext(b) ==
    [source |-> "bootstrap",
     signature |-> b.signature,
     signerPublicKey |-> Or(b.publicKey, signer),
     kyberPublicKey |-> Or(b.kyberPublicKey, kp.publicKey),
     kyberSecretKey |-> Or(b.kyberSecretKey, kp.secretKey)]

\* The bootstrap strategy: the combined endpoint, whose keypair replaces the
\* generated one field by field.
BootstrapStrategy ==
    /\ pc = "strategy" /\ strategies[idx] = "bootstrap"
    /\ \E b \in BootstrapAnswers :
         /\ Pay(SignCost(b))
         /\ calls' = calls \o Exchange(scheme, "bootstrap", sigBase, b)
         /\ IF ~NoSignature(b)
            THEN Submit(BootstrapContext(b))
            ELSE Continue(lastSigError)
    /\ UNCHANGED <<downsLeft, open, deriving, signerMeta, tried, current, level, signerInfo, rotationAlg, probing, health, req, awaiting, dBase, fBase, scheme, kyberBase, sigBase,
                   rotationBase, kp, signer, strategies, encapRes, ctxForDecap,
                   decapRes>>

\* What encapsulate-verified answers with: a JSON object, the JSON null, an
\* error.
EncapAnswers ==
    { [ok |-> TRUE, null |-> FALSE, ciphertext |-> "ct", sharedSecret |-> ss] :
        ss \in {"ssA", Undefined} }
    \cup { [ok |-> TRUE, null |-> TRUE] }
    \cup Raised(EncapErrors)

\* The signer a signature verifies under: the rotation backend signs with its
\* current key, the signature backend with the key its signer endpoint
\* reports.
Verifies(sig, signerPublicKey) ==
    \/ sig = "sigRot" /\ signerPublicKey \in {"rotPkCur", "rotPkSign"}
    \/ sig = "sigDirect" /\ signerPublicKey \in {"signPk", "svcPk"}
    \/ sig = "sigBoot" /\ signerPublicKey \in {"bootPk", "svcPk"}

\* An answer with a secret is no fault, nor is a verification error for a
\* signature that does not verify under the signer key submitted.
EncapCost(a, c) ==
    IF Answered(a)
    THEN (IF ~a.null /\ a.sharedSecret # Undefined THEN 0 ELSE 1)
    ELSE IF SignatureVerificationError[a.error]
            /\ ~Verifies(c.signature, c.signerPublicKey)
         THEN 0 ELSE 1

\* The fields of the payload that pair the signature with the KEM key:
\* kyberPublicKey and signature_b64.
EncapPayload(c) ==
    [kyberPublicKey |-> c.kyberPublicKey,
     signature |-> c.signature]

\* Mutant: the catch goes on to the next strategy whatever the error, and
\* keeps the error only when it is a verification failure.
CatchContinues(err) ==
    Continue(IF SignatureVerificationError[err] THEN err ELSE lastSigError)

\* catch (err) { if (isSignatureVerificationError(err)) { lastSigError = err;
\* continue; } throw err; }
Catch(err) ==
    IF SignatureVerificationError[err]
    THEN Continue(err)
    ELSE Throw(err) /\ UNCHANGED <<ctx, idx, lastSigError>>

\* encapRes = await postJSON(`${sigBase}/orchestrator/encapsulate-verified`, payload)
\* and the catch that tells a verification failure from any other.
EncapsulateVerified ==
    /\ pc = "encap"
    /\ \E a \in EncapAnswers :
         /\ calls' = calls \o CallWith(scheme, "encapsulate-verified", sigBase,
                                       EncapPayload(ctx), Outcome(a))
         /\ Pay(EncapCost(a, ctx))
         /\ IF Answered(a)
            THEN /\ ctxForDecap' = ctx
                 /\ UNCHANGED <<ctx, idx, lastSigError>>
                 /\ IF a.null
                    THEN Exhausted(lastSigError) /\ UNCHANGED encapRes
                    ELSE /\ encapRes' = [status |-> "json", ciphertext |-> a.ciphertext,
                                         sharedSecret |-> a.sharedSecret]
                         /\ pc' = "decap"
                         /\ UNCHANGED reply
            ELSE Catch(a.error) /\ UNCHANGED <<encapRes, ctxForDecap>>
    /\ UNCHANGED <<downsLeft, open, deriving, signerMeta, tried, current, level, signerInfo, rotationAlg, probing, health, req, awaiting, dBase, fBase, scheme, kyberBase, sigBase,
                   rotationBase, kp, signer, strategies, decapRes>>

\* What /kyber/decapsulate answers with.
DecapAnswers ==
    { [ok |-> TRUE, sharedSecret |-> ss] : ss \in {"ssA", "ssB", Undefined} }
    \cup Raised(CallErrors \cup {TypeErrorMsg("sharedSecret")})

DecapCost(a) == IF Answered(a) /\ a.sharedSecret = "ssA" THEN 0 ELSE 1

\* a === b
StrictEquals(a, b) == a = b

\* Mutant: the status does not follow the comparison.
AkeResultAlwaysOk(same, sch, payloadHintBytes, policyPreferredSig) ==
    [status |-> "ok",
     schemeSelected |-> sch,
     reason |-> Reason(payloadHintBytes, policyPreferredSig),
     sharedSecretMatch |-> same]

\* The object the handler returns: its status, schemeSelected, reason and
\* sharedSecretMatch.
AkeResult(same, sch, payloadHintBytes, policyPreferredSig) ==
    [status |-> IF same THEN "ok" ELSE "mismatch",
     schemeSelected |-> sch,
     reason |-> Reason(payloadHintBytes, policyPreferredSig),
     sharedSecretMatch |-> same]

\* Mutant: differing secrets are thrown as an error.
RespondThrowOnMismatch(a) ==
    /\ decapRes' = [status |-> "json", sharedSecret |-> a.sharedSecret]
    /\ IF StrictEquals(encapRes.sharedSecret, a.sharedSecret)
       THEN /\ pc' = "done"
            /\ reply' = [code |-> 200,
                         body |-> AkeResult(TRUE, scheme, req.payloadHintBytes,
                                            req.policyPreferredSig)]
       ELSE Throw(<<"shared", "secret", "mismatch">>)

\* decapsulate answered a: const same = ...; return { ... }
Respond(a) ==
    /\ decapRes' = [status |-> "json", sharedSecret |-> a.sharedSecret]
    /\ pc' = "done"
    /\ reply' = [code |-> 200,
                 body |-> AkeResult(
                     StrictEquals(encapRes.sharedSecret, a.sharedSecret),
                     scheme, req.payloadHintBytes, req.policyPreferredSig)]

\* Mutant: the secret key of generate-keypair is sent.
DecapPayloadGenerated(c, res) ==
    [secretKey |-> kp.secretKey, ciphertext |-> res.ciphertext]

\* Mutant: the ciphertext of the encapsulation result is not passed on.
DecapPayloadNoCiphertext(c, res) ==
    [secretKey |-> c.kyberSecretKey, ciphertext |-> Undefined]

\* { secretKey: ctxForDecap.kyberSecretKey, ciphertext: encapRes.ciphertext }
DecapPayload(c, res) ==
    [secretKey |-> c.kyberSecretKey, ciphertext |-> res.ciphertext]

\* decapRes = await postJSON(`${kyberBase}/kyber/decapsulate`, ...), the
\* comparison and the result.
Decapsulate ==
    /\ pc = "decap"
    /\ \E a \in DecapAnswers :
         /\ calls' = calls \o CallWith("kyber", "decapsulate", kyberBase,
                                       DecapPayload(ctxForDecap, encapRes), Outcome(a))
         /\ Pay(DecapCost(a))
         /\ IF Answered(a)
            THEN Respond(a)
            ELSE Throw(a.error) /\ UNCHANGED decapRes
    /\ UNCHANGED <<downsLeft, open, deriving, signerMeta, tried, current, level, signerInfo, rotationAlg, probing, health, req, awaiting, dBase, fBase, scheme, kyberBase, sigBase,
                   rotationBase, kp, signer, strategies, idx, ctx, lastSigError,
                   encapRes, ctxForDecap>>

------------------------------------------------------------------------------
(* GET /health *)

\* The positions of the /health handler: one per await, and the reply.
HealthPcs == {"healthKyber", "healthDilithium", "healthFalcon", "healthRotation",
              "healthDone"}

\* !!b of a firstReachable result
Reachable(b) == b # NoBase

\* Mutant: the rotation backend counts as a signature backend.
HealthStatusWithRotation(kb, db, fb, rb) ==
    IF Reachable(kb) /\ (Reachable(db) \/ Reachable(fb) \/ Reachable(rb))
    THEN "ok" ELSE "degraded"

\* kb && (db || fb) ? 'ok' : 'degraded'
HealthStatus(kb, db, fb, rb) ==
    IF Reachable(kb) /\ (Reachable(db) \/ Reachable(fb)) THEN "ok" ELSE "degraded"

\* Mutant: the first candidate is reported whatever was found.
BackendReportFirstCandidate(b) == [reachable |-> Reachable(b), base |-> 1]

\* { reachable: !!b, base: b }
BackendReport(b) == [reachable |-> Reachable(b), base |-> b]

\* The object /health returns.
HealthResult(kb, db, fb, rb) ==
    [status |-> HealthStatus(kb, db, fb, rb),
     kyber |-> BackendReport(kb),
     dilithium |-> BackendReport(db),
     falcon |-> BackendReport(fb),
     rotation |-> BackendReport(rb)]

\* One probe of const kb = await firstReachable(KYBER_BASES)
HealthKyber ==
    /\ pc = "healthKyber"
    /\ \E ok \in BOOLEAN :
         /\ ProbeNext("kyber", ok)
         /\ IF Returns("kyber", ok)
            THEN /\ health' = [health EXCEPT !.kb = FirstReachable("kyber", ok)]
                 /\ pc' = "healthDilithium"
                 /\ awaiting' = {"dilithium"}
            ELSE UNCHANGED <<health, pc, awaiting>>
    /\ UNCHANGED <<open, deriving, signerMeta, current, level, signerInfo, rotationAlg, probing, req,
                   dBase, fBase, scheme, kyberBase, sigBase, rotationBase, kp,
                   signer, strategies, idx, ctx, lastSigError, encapRes,
                   ctxForDecap, decapRes, reply, faultsLeft>>

\* One probe of const db = await firstReachable(DILITHIUM_BASES)
HealthDilithium ==
    /\ pc = "healthDilithium"
    /\ \E ok \in BOOLEAN :
         /\ ProbeNext("dilithium", ok)
         /\ IF Returns("dilithium", ok)
            THEN /\ health' = [health EXCEPT !.db = FirstReachable("dilithium", ok)]
                 /\ pc' = "healthFalcon"
                 /\ awaiting' = {"falcon"}
            ELSE UNCHANGED <<health, pc, awaiting>>
    /\ UNCHANGED <<open, deriving, signerMeta, current, level, signerInfo, rotationAlg, probing, req,
                   dBase, fBase, scheme, kyberBase, sigBase, rotationBase, kp,
                   signer, strategies, idx, ctx, lastSigError, encapRes,
                   ctxForDecap, decapRes, reply, faultsLeft>>

\* One probe of const fb = await firstReachable(FALCON_BASES)
HealthFalcon ==
    /\ pc = "healthFalcon"
    /\ \E ok \in BOOLEAN :
         /\ ProbeNext("falcon", ok)
         /\ IF Returns("falcon", ok)
            THEN /\ health' = [health EXCEPT !.fb = FirstReachable("falcon", ok)]
                 /\ pc' = "healthRotation"
                 /\ awaiting' = {"rotation"}
            ELSE UNCHANGED <<health, pc, awaiting>>
    /\ UNCHANGED <<open, deriving, signerMeta, current, level, signerInfo, rotationAlg, probing, req,
                   dBase, fBase, scheme, kyberBase, sigBase, rotationBase, kp,
                   signer, strategies, idx, ctx, lastSigError, encapRes,
                   ctxForDecap, decapRes, reply, faultsLeft>>

\* One probe of const rb = await firstReachable(KEYROTATION_BASES), and when
\* the call returns: return { ... }
HealthRotation ==
    /\ pc = "healthRotation"
    /\ \E ok \in BOOLEAN :
         /\ ProbeNext("rotation", ok)
         /\ IF Returns("rotation", ok)
            THEN /\ health' = [health EXCEPT !.rb = FirstReachable("rotation", ok)]
                 /\ pc' = "healthDone"
                 /\ awaiting' = {}
                 /\ reply' = [code |-> 200,
                              body |-> HealthResult(health'.kb, health'.db,
                                                    health'.fb, health'.rb)]
            ELSE UNCHANGED <<health, pc, awaiting, reply>>
    /\ UNCHANGED <<open, deriving, signerMeta, current, level, signerInfo, rotationAlg, probing, req,
                   dBase, fBase, scheme, kyberBase, sigBase, rotationBase, kp,
                   signer, strategies, idx, ctx, lastSigError, encapRes,
                   ctxForDecap, decapRes, faultsLeft>>

\* The positions of a call of probe followed on its own.
ProbePcs == {"probe", "probed"}

\* probe(base) returns.
ProbeReturns ==
    /\ pc = "probe"
    /\ probing' = [probing EXCEPT !.returned = IF Probe(probing.res) THEN "true"
                                                ELSE "false"]
    /\ pc' = "probed"
    /\ UNCHANGED <<downsLeft, open, deriving, signerMeta, tried, current, level, signerInfo, rotationAlg, health, req, awaiting, dBase, fBase, scheme, kyberBase, sigBase,
                   rotationBase, kp, signer, strategies, idx, ctx, lastSigError,
                   encapRes, ctxForDecap, decapRes, reply, calls, faultsLeft>>

\* The positions of a call of deriveRotationAlgorithm followed on its own.
DerivePcs == {"derive", "derived"}

\* deriveRotationAlgorithm(scheme, levelHint) is called, for every scheme
\* and every level hint explored, and returns.
DeriveReturns ==
    /\ pc = "derive"
    /\ \E s \in Schemes, h \in LevelHints :
         deriving' = [scheme |-> s, levelHint |-> h,
                      returned |-> DeriveRotationAlgorithm(s, h)]
    /\ pc' = "derived"
    /\ UNCHANGED <<downsLeft, open, signerMeta, tried, current, level, signerInfo, rotationAlg, probing, health, req, awaiting, dBase, fBase, scheme,
                   kyberBase, sigBase, rotationBase, kp, signer, strategies, idx, ctx,
                   lastSigError, encapRes, ctxForDecap, decapRes, reply, calls,
                   faultsLeft>>

Next ==
    \/ DeriveReturns
    \/ ProbeReturns
    \/ HealthKyber
    \/ HealthDilithium
    \/ HealthFalcon
    \/ HealthRotation
    \/ Receive
    \/ ProbeDilithium
    \/ ProbeFalcon
    \/ Select
    \/ ResolveKyber
    \/ ResolveSig
    \/ GenerateKeypair
    \/ FetchSigner
    \/ ResolveRotation
    \/ RotationCurrent
    \/ RotationRotate
    \/ RotationRequery
    \/ RotationSign
    \/ DirectStrategy
    \/ BootstrapStrategy
    \/ EncapsulateVerified
    \/ Decapsulate

Spec == Init /\ [][Next]_vars

------------------------------------------------------------------------------
(* Properties of POST /select/ake *)

\* What selectSigScheme saw of a signature backend when it chose.
ReachableAtSelection(s) == IF s = "dilithium" THEN dBase # NoBase ELSE fBase # NoBase

\* selectSigScheme has returned or thrown.
Selected == pc \notin {"idle", "select"} \cup HealthPcs \cup ProbePcs \cup DerivePcs

\* The request was answered 200 with a result object.
Succeeded == pc = "done"

\* Every outbound call made so far is a liveness probe.
OnlyProbes == \A i \in 1..Len(calls) : calls[i].ep = "health"

\* The liveness probes of the candidates of backend b, in the order made.
ProbesOf(b) == SelectSeq(calls, LAMBDA c : c.to = b /\ c.ep = "health")

\* The probes are of the candidates in list order from the first, none but
\* the last answered, and found is the last one's candidate if it answered and
\* null if it is the last of the list and did not.
InListOrderUntilFirst(probes, found) ==
    /\ Len(probes) \in 1..NumBases
    /\ \A i \in 1..Len(probes) : probes[i].base = i
    /\ \A i \in 1..(Len(probes) - 1) : ~probes[i].ok
    /\ IF probes[Len(probes)].ok
       THEN found = Len(probes)
       ELSE found = NoBase /\ Len(probes) = NumBases

\* The probes of a firstReachable call still in flight: the candidates in
\* list order from the first, none of which answered, the list not at its end.
InListOrderNoneYet(probes) ==
    /\ Len(probes) < NumBases
    /\ \A i \in 1..Len(probes) : probes[i].base = i /\ ~probes[i].ok

\* The probes are those of a firstReachable call that has returned: the last
\* one answered, or was of the last candidate.
ProbesReturn(probes) ==
    /\ probes # <<>>
    /\ probes[Len(probes)].ok \/ Len(probes) = NumBases

\* The failure reply with the given detail.
FailureReply(detail) ==
    [code |-> 502, body |-> [error |-> "select_ake_failed", detail |-> detail]]

\* C1: when policyPreferredSig is "falcon" or "dilithium" and that backend is
\* reachable at selection time, that scheme is selected whatever the payload
\* hint is, and the result carries it with the reason "policy:<value>".
C1_PolicyPreferenceWins ==
    \A p \in Schemes :
        (req.policyPreferredSig = p /\ Selected /\ ReachableAtSelection(p)) =>
            /\ scheme = p
            /\ Succeeded =>
                 /\ reply.body.schemeSelected = p
                 /\ reply.body.reason =
                        (IF p = "falcon" THEN "policy:falcon" ELSE "policy:dilithium")

\* A request preferring Falcon with a large payload hint and both backends
\* reachable succeeded.
C1_Witness ==
    /\ Succeeded
    /\ req.policyPreferredSig = "falcon"
    /\ req.payloadHintBytes = HNum(1025)
    /\ dBase # NoBase /\ fBase # NoBase
    /\ reply.body.schemeSelected = "falcon"

\* The request carries no policy preference and both backends were reachable
\* at selection time.
NoPreferenceBothReachable ==
    /\ req.policyPreferredSig = Undefined
    /\ Selected
    /\ dBase # NoBase /\ fBase # NoBase

\* C2 (as stated): with no policy preference and both backends reachable, a
\* payloadHintBytes <= 1024 yields schemeSelected "falcon" and reason
\* "payload_tight".
C2_AnyHintAtMostLimit ==
    (/\ NoPreferenceBothReachable
     /\ req.payloadHintBytes.k = "num"
     /\ req.payloadHintBytes.n <= 1024) =>
        /\ scheme = "falcon"
        /\ Succeeded =>
             /\ reply.body.schemeSelected = "falcon"
             /\ reply.body.reason = "payload_tight"

\* C2 (amended): with no policy preference and both backends reachable, a
\* numeric payloadHintBytes with 0 < payloadHintBytes <= 1024 yields
\* schemeSelected "falcon" and reason "payload_tight".
C2_PositiveHintAtMostLimit ==
    (/\ NoPreferenceBothReachable
     /\ req.payloadHintBytes.k = "num"
     /\ req.payloadHintBytes.n > 0
     /\ req.payloadHintBytes.n <= 1024) =>
        /\ scheme = "falcon"
        /\ Succeeded =>
             /\ reply.body.schemeSelected = "falcon"
             /\ reply.body.reason = "payload_tight"

\* A request with the hint 1024 and no preference succeeded with Falcon.
C2_Witness ==
    /\ Succeeded
    /\ NoPreferenceBothReachable
    /\ req.payloadHintBytes = HNum(1024)
    /\ reply.body.schemeSelected = "falcon"
    /\ reply.body.reason = "payload_tight"

\* C3: with no policy preference and both backends reachable, a
\* payloadHintBytes > 1024 yields schemeSelected "dilithium" and reason
\* "default_or_health".
C3_LargeHintDefaultsToDilithium ==
    (/\ NoPreferenceBothReachable
     /\ req.payloadHintBytes.k = "num"
     /\ req.payloadHintBytes.n > 1024) =>
        /\ scheme = "dilithium"
        /\ Succeeded =>
             /\ reply.body.schemeSelected = "dilithium"
             /\ reply.body.reason = "default_or_health"

\* A request with the hint 1025 and no preference succeeded with Dilithium.
C3_Witness ==
    /\ Succeeded
    /\ NoPreferenceBothReachable
    /\ req.payloadHintBytes = HNum(1025)
    /\ reply.body.schemeSelected = "dilithium"
    /\ reply.body.reason = "default_or_health"

\* C4: when exactly one of the two signature backends is reachable at
\* selection time, the reachable one is selected whatever the preference and
\* the hint are, and selection does not fail.
C4_OnlyReachableIsSelected ==
    \A s \in Schemes :
        (/\ Selected
         /\ ReachableAtSelection(s)
         /\ \A o \in Schemes \ {s} : ~ReachableAtSelection(o)) =>
            /\ scheme = s
            /\ pc = "failed" => reply.body.detail # NoSigService
            /\ Succeeded => reply.body.schemeSelected = s

\* A request preferring Dilithium, with a tight hint or not, succeeded with
\* Falcon because only Falcon was reachable.
C4_Witness ==
    /\ Succeeded
    /\ req.policyPreferredSig = "dilithium"
    /\ dBase = NoBase /\ fBase # NoBase
    /\ reply.body.schemeSelected = "falcon"

\* Both firstReachable calls of the selector answered null.
NeitherReachable ==
    /\ pc \notin {"idle"} \cup HealthPcs \cup ProbePcs \cup DerivePcs /\ awaiting = {}
    /\ dBase = NoBase /\ fBase = NoBase

\* C5: when neither signature backend is reachable the request is answered
\* 502 with error select_ake_failed, and no keypair, signer or sign call (no
\* call but liveness probes) is made.
C5_NeitherReachableFails ==
    NeitherReachable =>
        /\ pc \in {"select", "failed"}
        /\ pc = "failed" => reply = FailureReply(NoSigService)
        /\ OnlyProbes

\* A request preferring Falcon failed because no signature backend answered.
C5_Witness ==
    /\ NeitherReachable
    /\ pc = "failed"
    /\ req.policyPreferredSig = "falcon"
    /\ reply.code = 502
    /\ Len(calls) = 2 * NumBases

\* firstReachable(KYBER_BASES) was called and answered null.
KyberFoundUnreachable ==
    /\ pc \notin HealthPcs \cup ProbePcs \cup DerivePcs
    /\ kyberBase = NoBase
    /\ ProbesReturn(ProbesOf("kyber"))

\* C6 (as stated): when the KEM backend is unreachable the request is
\* answered 502 with error select_ake_failed and no outbound call has been
\* made to a Dilithium or Falcon address.
C6_NoCallToSignatureBackends ==
    KyberFoundUnreachable =>
        /\ pc = "failed"
        /\ reply.code = 502
        /\ reply.body.error = "select_ake_failed"
        /\ \A i \in 1..Len(calls) : calls[i].to \notin Schemes

\* C6 (amended): a request that has not found the KEM backend reachable is
\* never answered 200; once the KEM backend is found unreachable it is
\* answered 502 with error select_ake_failed and detail "Kyber unreachable",
\* and the only outbound calls made are liveness probes: those of the scheme
\* selector to the Dilithium and Falcon addresses, and those of the KEM.
C6_OnlyProbesBeforeKyber ==
    (kyberBase = NoBase /\ pc \notin HealthPcs \cup ProbePcs \cup DerivePcs) =>
        /\ pc \in {"idle", "select", "resolveKyber", "failed"}
        /\ OnlyProbes
        /\ pc = "failed" =>
             /\ reply.code = 502
             /\ reply.body.error = "select_ake_failed"
        /\ KyberFoundUnreachable => reply = FailureReply(KyberUnreachable)

\* Falcon was selected, then the KEM backend was found unreachable.
C6_Witness ==
    /\ KyberFoundUnreachable
    /\ scheme = "falcon"
    /\ pc = "failed"
    /\ reply = FailureReply(KyberUnreachable)
    /\ \E i \in 1..Len(calls) : calls[i].to = "falcon"

\* C7: a successful result has status "ok" exactly when sharedSecretMatch is
\* true, and sharedSecretMatch is true exactly when the secret of
\* encapsulate-verified and the secret of decapsulate are identical.
C7_StatusFollowsSecrets ==
    Succeeded =>
        /\ reply.body.status \in {"ok", "mismatch"}
        /\ reply.body.status = "ok" <=> reply.body.sharedSecretMatch
        /\ reply.body.sharedSecretMatch <=>
               (encapRes.sharedSecret = decapRes.sharedSecret)

\* Both calls answered the same secret and the result says ok.
C7_Witness ==
    /\ Succeeded
    /\ encapRes.sharedSecret = "ssA"
    /\ decapRes.sharedSecret = "ssA"
    /\ reply.body.status = "ok"
    /\ reply.body.sharedSecretMatch

\* C8: when encapsulate-verified and decapsulate both answer and the two
\* secrets differ, the request ends on the success path: HTTP 200, status
\* "mismatch", sharedSecretMatch false, and no error object.
C8_MismatchIsNotAnError ==
    (/\ encapRes.status = "json"
     /\ decapRes.status = "json"
     /\ encapRes.sharedSecret # decapRes.sharedSecret) =>
        /\ pc = "done"
        /\ reply.code = 200
        /\ "error" \notin DOMAIN reply.body
        /\ reply.body.status = "mismatch"
        /\ reply.body.sharedSecretMatch = FALSE

\* decapsulate answered another secret than encapsulate-verified.
C8_Witness ==
    /\ Succeeded
    /\ encapRes.sharedSecret = "ssA"
    /\ decapRes.sharedSecret = "ssB"
    /\ reply.code = 200
    /\ reply.body.status = "mismatch"

\* C9: a request is answered in exactly one of two shapes: HTTP 200 with a
\* result object whose status is "ok" or "mismatch", or HTTP 502 with
\* { error: "select_ake_failed", detail }; every error raised in the pipeline
\* is answered in the second shape.
C9_TwoReplyShapes ==
    /\ pc \notin {"done", "failed", "healthDone"} => reply = NoReply
    /\ pc = "done" =>
         /\ reply.code = 200
         /\ "error" \notin DOMAIN reply.body
         /\ reply.body.status \in {"ok", "mismatch"}
    /\ pc = "failed" =>
         /\ reply.code = 502
         /\ DOMAIN reply.body = {"error", "detail"}
         /\ reply.body.error = "select_ake_failed"
         /\ reply.body.detail # <<>>

\* Every strategy was tried and none produced a context: the request failed
\* after the calls of the pipeline were made.
C9_Witness ==
    /\ pc = "failed"
    /\ reply = FailureReply(NoStrategy)
    /\ idx > Len(strategies)
    /\ ~OnlyProbes

\* The same shape for a generate-keypair call and for a decapsulate call
\* that the timer aborted.
C9_WitnessKeypairAborted ==
    /\ pc = "failed"
    /\ calls[Len(calls)].ep = "generate-keypair"
    /\ reply.code = 502
    /\ reply.body = [error |-> "select_ake_failed",
                     detail |-> <<"This", "operation", "was", "aborted">>]

C9_WitnessDecapsulateAborted ==
    /\ pc = "failed"
    /\ calls[Len(calls)].ep = "decapsulate"
    /\ reply.code = 502
    /\ reply.body = [error |-> "select_ake_failed",
                     detail |-> <<"This", "operation", "was", "aborted">>]

\* The rule of selectSigScheme that returned the scheme.
RuleFired ==
    IF req.policyPreferredSig \in Schemes /\ ReachableAtSelection(req.policyPreferredSig)
    THEN "policy:" \o req.policyPreferredSig
    ELSE IF /\ req.payloadHintBytes.k = "num"
            /\ req.payloadHintBytes.n > 0
            /\ req.payloadHintBytes.n <= 1024
            /\ fBase # NoBase
    THEN "payload_tight"
    ELSE "default_or_health"

\* C10: the reason of a successful result names the rule that chose the
\* scheme: "policy:<value>" when the policy preference was honoured,
\* "payload_tight" when the payload heuristic chose Falcon, and
\* "default_or_health" when the default or the health fallback chose.
C10_ReasonNamesTheRule ==
    Succeeded => reply.body.reason = RuleFired

\* The hint is non-numeric, zero or negative: the selector's heuristic does
\* not apply to it.
IgnoredHint(h) == h.k = "str" \/ (h.k = "num" /\ h.n <= 0)

\* C11: a request whose payloadHintBytes is non-numeric or non-positive is
\* not rejected and yields the schemeSelected and the reason of the same
\* request sent without payloadHintBytes.
C11_IgnoredHintAsAbsent ==
    (Succeeded /\ IgnoredHint(req.payloadHintBytes)) =>
        /\ reply.body.schemeSelected =
               SelectSigScheme(HUndef, req.policyPreferredSig,
                               dBase # NoBase, fBase # NoBase)
        /\ reply.body.reason = Reason(HUndef, req.policyPreferredSig)

------------------------------------------------------------------------------
(* Properties of GET /health *)

\* /health has answered.
HealthAnswered == pc = "healthDone"

\* The four backend reports of a /health response.
HealthReports(body) == {body.kyber, body.dilithium, body.falcon, body.rotation}

\* C13: in every /health response status is "ok" exactly when the KEM backend
\* is reported reachable and at least one of the two signature backends is
\* reported reachable, and "degraded" otherwise; the rotation backend's
\* reachability does not enter.
C13_HealthStatus ==
    HealthAnswered =>
        /\ reply.body.status \in {"ok", "degraded"}
        /\ reply.body.status = "ok" <=>
               /\ reply.body.kyber.reachable
               /\ reply.body.dilithium.reachable \/ reply.body.falcon.reachable

\* The KEM and the rotation backend are reachable, no signature backend is:
\* degraded.
C13_Witness ==
    /\ HealthAnswered
    /\ reply.body.kyber.reachable
    /\ reply.body.rotation.reachable
    /\ ~reply.body.dilithium.reachable /\ ~reply.body.falcon.reachable
    /\ reply.body.status = "degraded"

\* C14: in every /health response and for each of the four backends, base is
\* non-null exactly when reachable is true, and a non-null base is a member of
\* the backend's candidate list.
C14_BaseIffReachable ==
    HealthAnswered =>
        \A r \in HealthReports(reply.body) :
            /\ r.base # NoBase <=> r.reachable
            /\ r.base # NoBase => r.base \in Bases

\* The KEM answered on its last candidate and Falcon on none.
C14_Witness ==
    /\ HealthAnswered
    /\ reply.body.kyber = [reachable |-> TRUE, base |-> NumBases]
    /\ reply.body.falcon = [reachable |-> FALSE, base |-> NoBase]

------------------------------------------------------------------------------
(* Properties of the strategy loop *)

\* The key-generation event a Kyber key comes from.
KeyEvent(k) ==
    IF k \in {"pkGen", "skGen"} THEN "generate-keypair"
    ELSE IF k \in {"pkBoot", "skBoot"} THEN "bootstrap"
    ELSE "none"

\* The key-generation event whose public key a signature was computed over:
\* the rotation and the direct strategy send the generated public key to be
\* signed, bootstrap signs the public key of the keypair it generates.
SignedEvent(sig) == IF sig = "sigBoot" THEN "bootstrap" ELSE "generate-keypair"

\* A context is under submission to encapsulate-verified.
Submitting == pc = "encap"

\* C15: in every context submitted to encapsulate-verified, kyberPublicKey and
\* kyberSecretKey come from one and the same key-generation event, and the
\* signature was computed over the public key of that event, also when
\* bootstrap answers with one of the two keys or with neither.
C15_KeysAndSignatureOfOneEvent ==
    Submitting =>
        /\ KeyEvent(ctx.kyberPublicKey) = KeyEvent(ctx.kyberSecretKey)
        /\ SignedEvent(ctx.signature) = KeyEvent(ctx.kyberPublicKey)

\* A field of a context is present and not empty.
Present(v) == v # Undefined /\ v # ""

\* In this step a strategy ends without a context to submit: it is neither
\* at a later await of its own nor at encapsulate-verified.
StrategySkipped ==
    /\ pc \in StrategyPcs
    /\ pc' \notin {"encap"} \cup (StrategyPcs \ {"strategy"})

\* C16: a context in which signature, signerPublicKey, kyberPublicKey or
\* kyberSecretKey is missing or empty is never submitted to
\* encapsulate-verified; the strategy that produced it is skipped and the
\* loop goes on to the next strategy.
C16_IncompleteNeverSubmitted ==
    [][ /\ pc' = "encap" =>
             /\ Present(ctx'.signature)
             /\ Present(ctx'.signerPublicKey)
             /\ Present(ctx'.kyberPublicKey)
             /\ Present(ctx'.kyberSecretKey)
        /\ StrategySkipped =>
             /\ idx' = idx + 1
             /\ ctx' = NoCtx
             /\ idx < Len(strategies) => pc' = "strategy" ]_vars

\* generate-keypair answered without a secret key, direct signing answered
\* with a signature: that context was skipped, and the context of bootstrap,
\* which brings its own keypair, is submitted.
C16_Witness ==
    /\ Submitting
    /\ kp.secretKey = Undefined
    /\ faultsLeft = MaxFaults - 1
    /\ strategies = <<"direct", "bootstrap">>
    /\ ctx.source = "bootstrap"
    /\ ctx.kyberSecretKey = "skBoot"

\* The errors of encapsulate-verified that name a signature-verification
\* failure, and the others.
VerificationErrors ==
    { <<"signature_verification_failed">>,
      <<"Invalid", "signature", "over", "Kyber", "public", "key">> }

\* The others: a transport error, the abort on the timeout, an error the
\* backend names, an HTTP status.
FatalEncapErrors ==
    { <<"fetch", "failed">>, <<"This", "operation", "was", "aborted">>,
      <<"internal", "error">>, <<"backend", "->", "500">> }

\* C17: when encapsulate-verified fails with a signature-verification error
\* the request does not fail at that point, the context is discarded and the
\* next strategy is attempted; the request fails with that error only once
\* every strategy has been exhausted.
C17_VerificationFailureTriesNext ==
    [][ pc = "encap" =>
          /\ idx' = idx + 1 =>
               /\ lastSigError' \in VerificationErrors
               /\ ctx' = NoCtx
               /\ idx < Len(strategies) => (pc' = "strategy" /\ reply' = NoReply)
          /\ (pc' = "failed" /\ reply'.body.detail \in VerificationErrors) =>
               idx = Len(strategies) ]_vars

\* The calls a step has added.
NewCalls == SubSeq(calls', Len(calls) + 1, Len(calls'))

\* The step made a call to encapsulate-verified that raised the error e.
EncapRaised(e) ==
    /\ Len(NewCalls) = 1
    /\ NewCalls[1].ep = "encapsulate-verified"
    /\ NewCalls[1].answer = [ok |-> FALSE, error |-> e]

\* C18: when encapsulate-verified fails with an error that is not a
\* signature-verification error (the abort on the timeout, a transport error,
\* another HTTP error), the request fails at once with 502 and that error as
\* detail: the error is not kept for a retry, the loop does not advance, no
\* result is bound, and no strategy, encapsulate-verified or decapsulate call
\* follows, the failed request making no further step.
C18_OtherFailureIsFatal ==
    [][ /\ \A e \in FatalEncapErrors :
              EncapRaised(e) =>
                 /\ pc = "encap" /\ pc' = "failed"
                 /\ reply' = [code |-> 502,
                              body |-> [error |-> "select_ake_failed", detail |-> e]]
                 /\ idx' = idx /\ lastSigError' = lastSigError
                 /\ strategies' = strategies
                 /\ encapRes' = NoRes /\ decapRes' = NoRes
        /\ lastSigError' \notin FatalEncapErrors
        /\ pc # "failed" ]_vars

\* The call to encapsulate-verified was aborted on the timeout for the first
\* context while later strategies remained: the request has failed without
\* a decapsulate call.
C18_Witness ==
    /\ pc = "failed"
    /\ reply = FailureReply(<<"This", "operation", "was", "aborted">>)
    /\ idx = 1 /\ idx < Len(strategies)
    /\ calls[Len(calls)].ep = "encapsulate-verified"
    /\ calls[Len(calls)].answer = [ok |-> FALSE, error |-> <<"This", "operation", "was", "aborted">>]
    /\ \A i \in 1..Len(calls) : calls[i].ep # "decapsulate"

\* The same for a status that is not ok and names no error, and for a rejected
\* fetch, here for the last context.
C18_WitnessStatus ==
    /\ pc = "failed"
    /\ reply = FailureReply(<<"backend", "->", "500">>)
    /\ idx < Len(strategies)
    /\ calls[Len(calls)].ep = "encapsulate-verified"
    /\ calls[Len(calls)].answer = [ok |-> FALSE, error |-> <<"backend", "->", "500">>]

C18_WitnessTransport ==
    /\ pc = "failed"
    /\ reply = FailureReply(<<"fetch", "failed">>)
    /\ idx = Len(strategies)
    /\ lastSigError \in VerificationErrors
    /\ calls[Len(calls)].ep = "encapsulate-verified"
    /\ calls[Len(calls)].answer = [ok |-> FALSE, error |-> <<"fetch", "failed">>]

\* C19: a strategy that fails to construct its context (a failed call, no
\* signature in the answer) does not fail the request by itself: no
\* encapsulate-verified call is made for it and the next strategy is
\* attempted; after the last strategy the request fails as exhausted.
C19_ConstructionFailureSkips ==
    [][ StrategySkipped =>
          /\ idx' = idx + 1
          /\ \A i \in 1..Len(NewCalls) : NewCalls[i].ep # "encapsulate-verified"
          /\ idx < Len(strategies) => (pc' = "strategy" /\ reply' = NoReply)
          /\ idx = Len(strategies) =>
               /\ pc' = "failed"
               /\ reply' = FailureReply(IF lastSigError # <<>> THEN lastSigError
                                        ELSE NoStrategy) ]_vars

\* Direct signing failed although the keypair and the signer key were there:
\* bootstrap is the strategy now attempted.
C19_Witness ==
    /\ pc = "strategy"
    /\ strategies[idx] = "bootstrap"
    /\ rotationBase = NoBase
    /\ Present(signer) /\ Present(kp.publicKey) /\ Present(kp.secretKey)
    /\ faultsLeft = MaxFaults - 1
    /\ calls[Len(calls)].ep = "sign"
    /\ reply = NoReply

\* The rank of the strategy an outbound call belongs to (0: none).
StrategyOf(c) ==
    IF c.to = "rotation" /\ c.ep # "health" THEN 1
    ELSE IF c.ep = "sign" THEN 2
    ELSE IF c.ep = "bootstrap" THEN 3
    ELSE 0

\* The call belongs to a strategy.
IsStrategyCall(c) == StrategyOf(c) > 0

\* The ranks of the strategies attempted, in the order of their calls.
Ranks(cs) == [i \in 1..Len(cs) |-> StrategyOf(cs[i])]

\* The strategy of that rank has been attempted.
Attempted(r) == \E i \in 1..Len(calls) : StrategyOf(calls[i]) = r

\* C20: the strategies are attempted in the order rotation, direct,
\* bootstrap; rotation only if the rotation backend was found reachable;
\* direct always before bootstrap; a later strategy only after every earlier
\* one was skipped or failed verification downstream.
C20_StrategyOrder ==
    LET ranks == Ranks(SelectSeq(calls, IsStrategyCall))
        attempted == {ranks[i] : i \in 1..Len(ranks)}
    IN /\ \A i \in 1..(Len(ranks) - 1) : ranks[i] <= ranks[i + 1]
       /\ 1 \in attempted => rotationBase # NoBase
       /\ (2 \in attempted /\ rotationBase # NoBase) => 1 \in attempted
       /\ 3 \in attempted => 2 \in attempted
       /\ \A i \in 1..(Len(calls) - 1) :
              /\ calls[i].ep # "decapsulate"
              /\ calls[i].ep = "encapsulate-verified" =>
                   \/ calls[i + 1].ep = "decapsulate"
                   \/ IsStrategyCall(calls[i + 1]) /\ lastSigError \in VerificationErrors

\* The contexts of rotation and of direct signing failed verification, the
\* context of bootstrap is submitted.
C20_Witness ==
    /\ Submitting
    /\ ctx.source = "bootstrap"
    /\ Attempted(1) /\ Attempted(2) /\ Attempted(3)
    /\ Cardinality({i \in 1..Len(calls) : calls[i].ep = "encapsulate-verified"}) = 2

\* The outbound calls to the given endpoint, in the order they were made.
CallsTo(ep) == SelectSeq(calls, LAMBDA c : c.ep = ep)

\* The strategy loop was left with every strategy skipped or failed downstream.
LoopExhausted == idx > Len(strategies)

\* C21: if no strategy yields a context that passes downstream verification
\* (each one was skipped or failed verification), the request ends in Failed
\* with HTTP 502 and error "select_ake_failed", and no decapsulate call is
\* made.
C21_ExhaustionFails ==
    LoopExhausted =>
        /\ pc = "failed"
        /\ reply.code = 502
        /\ reply.body.error = "select_ake_failed"
        /\ reply.body.detail = (IF lastSigError # <<>> THEN lastSigError ELSE NoStrategy)
        /\ encapRes = NoRes /\ ctxForDecap = NoCtx
        /\ CallsTo("decapsulate") = <<>>

\* Direct signing and bootstrap were both submitted and both failed
\* verification downstream.
C21_Witness ==
    /\ LoopExhausted
    /\ pc = "failed"
    /\ lastSigError \in VerificationErrors
    /\ Len(CallsTo("encapsulate-verified")) = Len(strategies)

\* encapsulate-verified answered the submitted context with a result.
EncapSucceeds == pc = "encap" /\ pc' = "decap"

\* C22: the secretKey sent to decapsulate is the kyberSecretKey of the very
\* context whose encapsulate-verified call succeeded, and the kyberPublicKey
\* that was encapsulated to is that same context's kyberPublicKey; a context
\* that was skipped or failed verification never supplies the secret key.
C22_DecapsulatesWithTheVerifiedContext ==
    [][ /\ EncapSucceeds =>
              /\ ctxForDecap' = ctx
              /\ Len(NewCalls) = 1
              /\ NewCalls[1].ep = "encapsulate-verified"
              /\ NewCalls[1].body.kyberPublicKey = ctx.kyberPublicKey
              /\ NewCalls[1].body.signature = ctx.signature
        /\ (\E i \in 1..Len(NewCalls) : NewCalls[i].ep = "decapsulate") =>
              /\ pc = "decap"
              /\ Len(NewCalls) = 1
              /\ calls[Len(calls)].ep = "encapsulate-verified"
              /\ calls[Len(calls)].body.kyberPublicKey = ctxForDecap.kyberPublicKey
              /\ NewCalls[1].body.secretKey = ctxForDecap.kyberSecretKey
              /\ NewCalls[1].body.ciphertext = encapRes.ciphertext
        /\ ctxForDecap' # ctxForDecap =>
              /\ pc = "encap" /\ ctxForDecap' = ctx
              /\ pc' \in {"decap", "failed"} ]_vars

\* The direct context failed verification, the bootstrap context with its own
\* keypair passed, and decapsulate was sent the bootstrap secret key.
C22_Witness ==
    /\ pc = "done"
    /\ Len(CallsTo("encapsulate-verified")) = 2
    /\ ctxForDecap.source = "bootstrap"
    /\ kp.secretKey = "skGen"
    /\ calls[Len(calls)].ep = "decapsulate"
    /\ calls[Len(calls)].body.secretKey = "skBoot"

\* The call is a bootstrap call whose response carried a keypair.
BootstrapWithKeypair(c) ==
    /\ c.ep = "bootstrap"
    /\ c.answer.ok
    /\ c.answer.kyberPublicKey # Undefined
    /\ c.answer.kyberSecretKey # Undefined

\* C23: when the bootstrap strategy produces the context that passes
\* verification and its response carried a keypair, the public key submitted
\* to encapsulate-verified and the secret key submitted to decapsulate are the
\* keys of the bootstrap response, not the keypair generate-keypair returned.
C23_BootstrapKeypairSupersedes ==
    ctxForDecap.source = "bootstrap" =>
      \A i \in 1..Len(calls) :
        BootstrapWithKeypair(calls[i]) =>
            /\ i < Len(calls) =>
                  /\ calls[i + 1].ep = "encapsulate-verified"
                  /\ calls[i + 1].body.kyberPublicKey = calls[i].answer.kyberPublicKey
            /\ i + 1 < Len(calls) =>
                  /\ calls[i + 2].ep = "decapsulate"
                  /\ calls[i + 2].body.secretKey = calls[i].answer.kyberSecretKey

\* A keypair was generated, bootstrap answered with another, and the
\* bootstrap context was verified and decapsulated.
C23_Witness ==
    /\ pc = "done"
    /\ kp = [publicKey |-> "pkGen", secretKey |-> "skGen"]
    /\ Len(calls) > 2
    /\ BootstrapWithKeypair(calls[Len(calls) - 2])
    /\ calls[Len(calls) - 1].body.kyberPublicKey = "pkBoot"
    /\ calls[Len(calls)].body.secretKey = "skBoot"

\* The position in calls of the last probe of the KEM backend (0 if none).
LastKyberProbe ==
    LET at == { i \in 1..Len(calls) : calls[i].to = "kyber" /\ calls[i].ep = "health" }
    IN IF at = {} THEN 0 ELSE CHOOSE i \in at : \A j \in at : j <= i

\* The probes of the chosen scheme's candidates made since the KEM backend
\* was resolved.
SigProbes ==
    SelectSeq(SubSeq(calls, LastKyberProbe + 1, Len(calls)),
              LAMBDA c : c.to = scheme /\ c.ep = "health")

\* The chosen scheme's backend was reachable at selection and the second
\* probe found none of its candidates.
LostAfterSelection ==
    /\ pc \notin {"idle", "select", "resolveKyber", "resolveSig"}
                 \cup HealthPcs \cup ProbePcs \cup DerivePcs
    /\ scheme \in Schemes
    /\ kyberBase # NoBase
    /\ sigBase = NoBase

\* C24: the base of the chosen signature backend is resolved by a fresh probe
\* after selection.  If that probe finds the backend unreachable the request
\* fails with detail "<scheme> unreachable", keeps the scheme, and makes no
\* keypair or signing call; otherwise every later call to a signature backend
\* goes to the chosen scheme at the address this second probe found.
C24_SigBaseResolvedAfresh ==
    [][ /\ pc = "resolveSig" =>
              /\ Len(NewCalls) = 1
              /\ NewCalls[1].to = scheme /\ NewCalls[1].ep = "health"
              /\ scheme' = scheme
              /\ IF pc' = "resolveSig"
                 THEN InListOrderNoneYet(SigProbes') /\ sigBase' = NoBase
                 ELSE InListOrderUntilFirst(SigProbes', sigBase')
              /\ sigBase' # NoBase => pc' = "keypair"
        /\ LostAfterSelection' =>
              /\ pc = "resolveSig" /\ pc' = "failed"
              /\ reply' = FailureReply(<<scheme, "unreachable">>)
              /\ ReachableAtSelection(scheme)
              /\ OnlyProbes'
        /\ pc # "resolveSig" => sigBase' = sigBase
        /\ \A i \in 1..Len(NewCalls) :
              (NewCalls[i].to \in Schemes /\ NewCalls[i].ep # "health") =>
                  /\ sigBase # NoBase
                  /\ NewCalls[i].to = scheme
                  /\ NewCalls[i].base = sigBase ]_vars

\* Falcon was selected at its first candidate while Dilithium was reachable
\* too, and the second probe found no Falcon candidate.
C24_Witness ==
    /\ LostAfterSelection
    /\ scheme = "falcon"
    /\ fBase = 1
    /\ dBase # NoBase

\* The second probe found Falcon at another candidate than selection did, and
\* the signer metadata was fetched there.
C24_WitnessMoved ==
    /\ scheme = "falcon"
    /\ fBase = 1
    /\ sigBase = 2
    /\ calls[Len(calls)] = [to |-> "falcon", ep |-> "signer", base |-> 2,
                            answer |-> [ok |-> TRUE]]

\* How many outbound calls satisfy the test.
Count(Test(_)) == Len(SelectSeq(calls, Test))

\* How many times the candidates of backend b were resolved: every call of
\* firstReachable probes the first candidate.
Resolutions(b) ==
    Count(LAMBDA c : c.ep = "health" /\ c.to = b /\ c.base = 1)

\* How many calls were made to the endpoint ep of backend b.
CallsMade(b, ep) == Count(LAMBDA c : c.to = b /\ c.ep = ep)

\* The calls a request makes once at most: generate-keypair, the signer
\* fetch, the sign call of each strategy, rotate, bootstrap, decapsulate.
OnceOnly(c) ==
    c.ep \in {"generate-keypair", "signer", "sign", "keys/rotate", "bootstrap",
              "decapsulate"}

\* C25: within one request, scheme selection, KEM base resolution, signature
\* base resolution, generate-keypair and the signer-metadata fetch are each
\* performed at most once, and each signing strategy is attempted at most
\* once, so at most three encapsulate-verified calls and at most one
\* decapsulate call occur: no step repeats a call of these, a backend's
\* candidates are resolved again only for the chosen scheme after selection,
\* and a fourth encapsulate-verified call is never made.
C25_NoRetryOutsideTheStrategyLoop ==
    [][ pc \notin HealthPcs \cup ProbePcs \cup DerivePcs =>
          \A i \in 1..Len(NewCalls) :
              LET n == NewCalls[i]
              IN /\ OnceOnly(n) =>
                       /\ CallsMade(n.to, n.ep) = 0
                       /\ \A j \in 1..Len(NewCalls) :
                              (NewCalls[j].to = n.to /\ NewCalls[j].ep = n.ep) => j = i
                 /\ (n.ep = "health" /\ n.base = 1) =>
                       \/ Resolutions(n.to) = 0
                       \/ /\ Resolutions(n.to) = 1
                          /\ pc = "resolveSig" /\ n.to = scheme
                 /\ n.ep = "encapsulate-verified" =>
                       Count(LAMBDA c : c.ep = "encapsulate-verified") < 3 ]_vars

\* All three strategies were submitted, the third was verified and
\* decapsulated, and every earlier step was made once.
C25_Witness ==
    /\ pc = "done"
    /\ Resolutions("kyber") = 1 /\ Resolutions(scheme) = 2
    /\ CallsMade("kyber", "generate-keypair") = 1
    /\ Len(CallsTo("signer")) = 1
    /\ Len(CallsTo("encapsulate-verified")) = 3
    /\ Len(CallsTo("decapsulate")) = 1

\* What firstReachable returned to GET /health for each backend it has
\* resolved so far.
HealthFound ==
    [b \in {"kyber", "dilithium", "falcon", "rotation"} |->
        IF b = "kyber" THEN health.kb
        ELSE IF b = "dilithium" THEN health.db
        ELSE IF b = "falcon" THEN health.fb
        ELSE health.rb]

\* C28: firstReachable(candidates) probes the candidates one at a time in
\* list order, returns the first candidate whose probe succeeds without
\* probing any later candidate, and returns null if and only if every
\* candidate's probe failed.
C28_FirstReachableInOrder ==
    pc \in HealthPcs =>
        \A b \in DOMAIN HealthFound :
            LET probes == ProbesOf(b)
            IN IF b \in awaiting
               THEN /\ InListOrderNoneYet(probes)
                    /\ Len(probes) = tried[b]
                    /\ HealthFound[b] = NoBase
               ELSE /\ tried[b] = 0
                    /\ probes # <<>> => InListOrderUntilFirst(probes, HealthFound[b])

\* The first KEM candidate answered and the second was not probed; the
\* second Dilithium candidate answered after the first did not; no Falcon
\* candidate answered.
C28_Witness ==
    /\ pc = "healthDone"
    /\ health.kb = 1 /\ Len(ProbesOf("kyber")) = 1
    /\ health.db = 2 /\ Len(ProbesOf("dilithium")) = 2
    /\ health.fb = NoBase /\ Len(ProbesOf("falcon")) = NumBases

\* C29: probe(base) returns true for any received HTTP response whatever its
\* status code (4xx and 5xx included), and returns false, raising no error,
\* for any transport error, malformed response or timeout.
C29_AnyResponseIsReachable ==
    pc = "probed" =>
        /\ probing.res.kind = "response" => probing.returned = "true"
        /\ probing.res.kind \in {"transport_error", "malformed", "timeout"} =>
              probing.returned = "false"

\* A backend answered its liveness path with 503 and is reachable.
C29_Witness ==
    /\ pc = "probed"
    /\ probing.res = [kind |-> "response", status |-> 503]
    /\ probing.returned = "true"

\* The probe timed out and the backend is unreachable.
C29_WitnessTimeout ==
    /\ pc = "probed"
    /\ probing.res.kind = "timeout"
    /\ probing.returned = "false"

\* The backends GET /health has not resolved yet: those whose firstReachable
\* call has not returned.
Unresolved ==
    { b \in DOMAIN HealthFound :
        LET probes == ProbesOf(b)
        IN \/ probes = <<>>
           \/ ~probes[Len(probes)].ok /\ Len(probes) < NumBases }

\* C30: when answering /health, the probes of the four backends run
\* concurrently: the probing of every backend not resolved yet is in flight,
\* none waits for the probing of another to finish.
C30_HealthProbesConcurrent ==
    pc \in HealthPcs => awaiting = Unresolved

\* What firstReachable returned to selectSigScheme for the backend.
BaseAtSelection(b) == IF b = "dilithium" THEN dBase ELSE fBase

\* C31: in the Scheme Selector the Dilithium and Falcon probes run
\* concurrently (each is in flight until it has answered, in either order of
\* completion), the decision is taken only after both have completed, and the
\* scheme selected depends on the request and on the reachability of the two
\* backends alone, not on the order in which the probes completed.
C31_SelectionAfterBothProbes ==
    /\ pc = "select" =>
          /\ awaiting = { b \in Schemes : ~ProbesReturn(ProbesOf(b)) }
          /\ awaiting = { open[i].to : i \in 1..Len(open) }
          /\ \A b \in Schemes :
                IF b \in awaiting
                THEN /\ InListOrderNoneYet(ProbesOf(b))
                     /\ Len(ProbesOf(b)) = tried[b]
                     /\ BaseAtSelection(b) = NoBase
                ELSE InListOrderUntilFirst(ProbesOf(b), BaseAtSelection(b))
          /\ scheme = Undefined /\ reply = NoReply
    /\ Selected =>
          /\ awaiting = {}
          /\ scheme = Undefined => (~ReachableAtSelection("dilithium")
                                     /\ ~ReachableAtSelection("falcon"))
          /\ scheme # Undefined =>
                scheme = SelectSigScheme(req.payloadHintBytes, req.policyPreferredSig,
                                         ReachableAtSelection("dilithium"),
                                         ReachableAtSelection("falcon"))

\* Falcon's probing completed before the first Dilithium probe was answered
\* (the first Falcon candidate was down, the second answered, then the first
\* Dilithium candidate did), both are reachable, and the default rule
\* selected Dilithium as it does in the other order.
C31_Witness ==
    /\ pc = "resolveKyber"
    /\ req = EmptyRequest
    /\ calls = <<[to |-> "falcon", ep |-> "health", base |-> 1, ok |-> FALSE],
                 [to |-> "falcon", ep |-> "health", base |-> 2, ok |-> TRUE],
                 [to |-> "dilithium", ep |-> "health", base |-> 1, ok |-> TRUE]>>
    /\ dBase = 1 /\ fBase = 2
    /\ scheme = "dilithium"

\* A /select/ake request for which selection has not succeeded, or no base
\* has been resolved for the KEM backend or for the chosen signature backend.
BeforeKeypair ==
    /\ pc \notin HealthPcs \cup ProbePcs \cup DerivePcs
    /\ \/ scheme \notin Schemes
       \/ kyberBase = NoBase
       \/ sigBase = NoBase

\* C32: no generate-keypair, signer-metadata, rotation, sign, bootstrap,
\* encapsulate-verified or decapsulate call is issued unless scheme selection
\* succeeded and a reachable base was then resolved for the KEM backend and
\* for the chosen signature backend; a failure of any of steps 1-3 leads to
\* Failed (502, select_ake_failed) with only liveness probes sent.
C32_OnlyProbesBeforeResolution ==
    BeforeKeypair =>
        /\ pc \in {"idle", "select", "resolveKyber", "resolveSig", "failed"}
        /\ OnlyProbes
        /\ pc = "failed" =>
              /\ reply.code = 502
              /\ reply.body.error = "select_ake_failed"
              /\ reply.body.detail \in
                    { <<"No", "signature", "service", "reachable">>,
                      <<"Kyber", "unreachable">>,
                      <<"dilithium", "unreachable">>, <<"falcon", "unreachable">> }

\* The KEM backend was resolved, the chosen Dilithium backend was not: the
\* request failed after probes of all three backends and nothing else.
C32_Witness ==
    /\ pc = "failed"
    /\ scheme = "dilithium" /\ kyberBase # NoBase /\ sigBase = NoBase
    /\ reply.body.detail = <<"dilithium", "unreachable">>
    /\ \E i \in 1..Len(calls) : calls[i].to = "kyber"
    /\ \E i \in 1..Len(calls) : calls[i].to = "falcon"

\* C33: once an encapsulate-verified call has returned its result, no further
\* strategy is attempted and no further encapsulate-verified call is made;
\* the one step that follows is a single decapsulate call carrying the
\* ciphertext of that result, and a success result is produced only by the
\* step in which that decapsulate call answered.
C33_OneDecapsulateAfterSuccess ==
    [][ /\ encapRes # NoRes =>
              /\ pc = "decap" /\ pc' \in {"done", "failed"}
              /\ encapRes' = encapRes /\ ctxForDecap' = ctxForDecap
              /\ idx' = idx /\ ctx' = ctx
              /\ Len(NewCalls) = 1
              /\ NewCalls[1].to = "kyber" /\ NewCalls[1].ep = "decapsulate"
              /\ NewCalls[1].body.ciphertext = encapRes.ciphertext
              /\ NewCalls[1].body.ciphertext # Undefined
        /\ (\E i \in 1..Len(NewCalls) : NewCalls[i].ep = "decapsulate") =>
              encapRes # NoRes
        /\ pc' = "done" =>
              /\ pc = "decap" /\ encapRes # NoRes
              /\ decapRes = NoRes /\ decapRes' # NoRes ]_vars

\* The first strategy's context passed: one encapsulate-verified call, one
\* decapsulate call after it, the remaining strategies never attempted.
C33_Witness ==
    /\ pc = "done"
    /\ idx = 1 /\ Len(strategies) > 1
    /\ Len(CallsTo("encapsulate-verified")) = 1
    /\ Len(CallsTo("decapsulate")) = 1
    /\ calls[Len(calls)].ep = "decapsulate"
    /\ calls[Len(calls) - 1].ep = "encapsulate-verified"
    /\ calls[Len(calls)].body.ciphertext = encapRes.ciphertext

\* The calls the rotation-backed strategy has made to the rotation backend.
RotationCalls == SelectSeq(calls, LAMBDA c : c.to = "rotation" /\ c.ep # "health")

\* The calls q of the rotation-backed strategy so far, the handler being at
\* `at`, begin one of its runs: query, sign; or failed query, rotate, query,
\* sign, ending at a failed rotate or second query.
RotationRun(q, at) ==
    /\ Len(q) >= 1 => q[1].ep = "keys/current"
    /\ \A i \in 1..Len(q) :
          /\ q[i].ep \in {"keys/current", "keys/rotate", "sign"}
          /\ q[i].ep = "keys/rotate" => i = 2 /\ ~q[1].answer.ok
          /\ (q[i].ep = "keys/current" /\ i > 1) =>
                i = 3 /\ q[2].ep = "keys/rotate" /\ q[2].answer.ok
          /\ q[i].ep = "sign" =>
                /\ i = Len(q) /\ i \in {2, 4}
                /\ q[i - 1].ep = "keys/current" /\ q[i - 1].answer.ok
    /\ at = "rotationRotate" => Len(q) = 1 /\ ~q[1].answer.ok
    /\ at = "rotationRequery" => Len(q) = 2 /\ q[2].answer.ok
    /\ at = "rotationSign" =>
          Len(q) \in {1, 3} /\ q[Len(q)].answer.ok

\* C34: in the rotation-backed strategy the rotate call is issued only after
\* the current-key query has failed, at most once per request, and a second
\* current-key query follows it before the sign call; no rotate call is made
\* when the first query succeeds; when the rotate call or the second query
\* fails, no sign call and no encapsulate-verified call is made for the
\* strategy and the loop moves on.
C34_RotateOnlyAfterFailedQuery ==
    [][ /\ RotationRun(RotationCalls', pc')
        /\ (pc \in {"rotationRotate", "rotationRequery"} /\ ~NewCalls[1].answer.ok) =>
              /\ pc' \notin {"encap", "rotationRequery", "rotationSign"}
              /\ idx' = idx + 1 /\ ctx' = NoCtx
              /\ \A i \in 1..Len(calls') : calls'[i].ep = "sign" => calls'[i].to # "rotation"
        /\ (pc = "rotationRotate" /\ NewCalls[1].answer.ok) => pc' = "rotationRequery"
      ]_vars

\* The first query failed, the key was rotated and queried again, the
\* signature was requested and the context is submitted.
C34_Witness ==
    /\ pc = "encap" /\ ctx.source = "rotation"
    /\ Len(calls) >= 4
    /\ LET k == Len(calls)
       IN /\ calls[k].to = "rotation" /\ calls[k].ep = "sign"
          /\ calls[k - 1].ep = "keys/current" /\ calls[k - 1].answer.ok
          /\ calls[k - 2].ep = "keys/rotate" /\ calls[k - 2].answer.ok
          /\ calls[k - 3].ep = "keys/current" /\ ~calls[k - 3].answer.ok

\* The identifier <scheme>-l<n>, character by character.
AlgId(s, n) == SchemeChars(s) \o <<"-", "l", ToString(n)>>

\* A level hint that is neither a finite number nor a string with a digit
\* from 1 to 5 (absent, null, a boolean, Infinity, a string such as "l6").
AbsentOrUnparseable(h) ==
    \/ h.type \notin {"number", "string"}
    \/ h.type = "number" /\ ~h.finite
    \/ h.type = "string" /\ \A i \in 1..Len(h.chars) : h.chars[i] \notin LevelDigits

\* The identifier alg is as C35 says for the scheme s and the level hint h.
AsDerived(s, h, alg) ==
    /\ \E r \in Schemes, n \in 1..5 : alg = AlgId(r, n)
    /\ (h.type = "number" /\ h.finite) =>
          \E n \in 1..5 :
             /\ alg = AlgId(s, n)
             \* n is the integer nearest to the hint, or the end of 1..5
             /\ n = 1 \/ 10 * n - 5 <= h.tenths
             /\ n = 5 \/ h.tenths < 10 * n + 5
    /\ AbsentOrUnparseable(h) =>
          alg = IF s = "dilithium" THEN AlgId("dilithium", 3) ELSE AlgId("falcon", 5)

\* C35: the rotation algorithm identifier derived for a request always has
\* the form <scheme>-l<n> with n in 1..5; a numeric level hint is rounded and
\* clamped into 1..5; when the hint is absent or unparseable the identifier
\* is dilithium-l3 for Dilithium and falcon-l5 for Falcon.  The hint in force
\* for a request is the level of the body, else what the signer answered.
C35_RotationAlgorithmForm ==
    [][ /\ rotationAlg' # rotationAlg =>
              AsDerived(scheme', BaseSignerLevel(level', signerInfo'), rotationAlg')
        /\ deriving'.returned # deriving.returned =>
              AsDerived(deriving'.scheme, deriving'.levelHint, deriving'.returned)
      ]_vars

\* The body's level 0.4 rounds to 0 and is clamped to 1.
C35_Witness ==
    /\ pc \in StrategyPcs
    /\ scheme = "dilithium"
    /\ req.level = Num(4) /\ level = Num(4)
    /\ rotationAlg = AlgId("dilithium", 1)

\* A signer level of 2 stands in for the level the body lacks.
C35_WitnessSignerLevel ==
    /\ pc \in StrategyPcs
    /\ scheme = "falcon"
    /\ level = Absent /\ signerInfo.level = Num(20)
    /\ rotationAlg = AlgId("falcon", 2)

\* The scheme a rotation algorithm identifier names: what stands before "-l".
SchemeNamed(alg) ==
    CHOOSE s \in Schemes \cup {Undefined} :
        IF \E t \in Schemes : SubSeq(alg, 1, Len(alg) - 3) = SchemeChars(t)
        THEN SubSeq(alg, 1, Len(alg) - 3) = SchemeChars(s) /\ s \in Schemes
        ELSE s = Undefined

\* C36: the scheme named by the rotation algorithm identifier equals the
\* scheme chosen by the selector, for every level hint.  The code does not
\* keep it: a string hint that names a scheme overrides the selected scheme
\* (level "falcon-l5" with Dilithium selected gives falcon-l5).
C36_AlgNamesSelectedScheme ==
    rotationAlg # <<>> => SchemeNamed(rotationAlg) = scheme

\* The public keys the rotation backend reports: with the current key, with
\* a signature.
RotationKeys == {"rotPkCur", "rotPkSign"}

\* C37: in a rotation-backed context the signerPublicKey submitted to
\* encapsulate-verified is the public key of the rotation key that produced
\* the signature, also when the current-key response exposes no usable public
\* key.  Stated as what it needs at least: the key submitted is a key of the
\* rotation backend.  The code does not keep it: when neither the sign
\* response nor the current-key response carries a usable key, the context
\* takes the public key of the signature backend's own signer.
C37_RotationContextCarriesRotationKey ==
    (Submitting /\ ctx.source = "rotation") =>
        ctx.signerPublicKey \in RotationKeys

\* C38: sharedSecretMatch true and status "ok" are reported only if both the
\* encapsulate-verified response and the decapsulate response carried a
\* shared secret.  The code does not keep it: the two sharedSecret fields are
\* compared with ===, and two absent fields are equal.
C38_OkOnlyWithBothSecrets ==
    (Succeeded /\ (reply.body.status = "ok" \/ reply.body.sharedSecretMatch)) =>
        /\ encapRes.sharedSecret # Undefined
        /\ decapRes.sharedSecret # Undefined

\* The step made a call to ep that failed.
CallFailed(ep) ==
    /\ Len(NewCalls) = 1
    /\ NewCalls[1].ep = ep
    /\ ~NewCalls[1].answer.ok

\* C39: when the signer-metadata fetch fails the request ends in Failed with
\* HTTP 502 and no signing strategy is attempted; a failed generate-keypair
\* call and a failed decapsulate call end the request in Failed likewise.
C39_FailedCallFailsTheRequest ==
    [][ /\ CallFailed("signer") =>
              /\ pc = "signer" /\ pc' = "failed"
              /\ reply' \in { FailureReply(m) :
                                m \in { <<"fetch", "failed">>, <<"Unexpected", "token">>,
                                        TypeErrorMsg("signerPublicKey") } }
              /\ strategies' = <<>> /\ idx' = 0
              /\ \A i \in 1..Len(calls') :
                    calls'[i].ep \in {"health", "generate-keypair", "signer"}
        /\ CallFailed("generate-keypair") =>
              /\ pc = "keypair" /\ pc' = "failed"
              /\ reply' = FailureReply(NewCalls[1].answer.error)
              /\ \A i \in 1..Len(calls') : calls'[i].ep \in {"health", "generate-keypair"}
        /\ CallFailed("decapsulate") =>
              /\ pc = "decap" /\ pc' = "failed"
              /\ reply' = FailureReply(NewCalls[1].answer.error)
              /\ decapRes' = NoRes
        /\ (pc = "decap" /\ decapRes' = NoRes) =>
              /\ pc' = "failed"
              /\ reply'.code = 502 /\ reply'.body.error = "select_ake_failed"
        /\ ~(/\ pc = "failed"
             /\ Len(calls) > 0
             /\ calls[Len(calls)].ep \in {"signer", "generate-keypair", "decapsulate"})
        /\ (pc # "resolveRotation" /\ pc' = "resolveRotation") =>
              /\ Len(NewCalls) = 1 /\ NewCalls[1].ep = "signer"
              /\ NewCalls[1].answer.ok ]_vars

\* The signer fetch failed after the keypair was generated: the request
\* failed and the rotation backend was not even probed.
C39_Witness ==
    /\ pc = "failed"
    /\ kp.publicKey = "pkGen"
    /\ calls[Len(calls)].ep = "signer" /\ ~calls[Len(calls)].answer.ok
    /\ reply.code = 502
    /\ strategies = <<>>

\* The decapsulate call was aborted on the timeout after a context had passed
\* verification.
C39_WitnessDecapsulate ==
    /\ pc = "failed"
    /\ encapRes # NoRes /\ decapRes = NoRes
    /\ calls[Len(calls)].ep = "decapsulate"
    /\ calls[Len(calls)].answer =
          [ok |-> FALSE, error |-> <<"This", "operation", "was", "aborted">>]
    /\ reply = FailureReply(<<"This", "operation", "was", "aborted">>)

\* The generate-keypair call was aborted on the timeout: no signer fetch
\* followed.
C39_WitnessKeypair ==
    /\ pc = "failed"
    /\ kp.publicKey = Undefined
    /\ calls[Len(calls)].ep = "generate-keypair"
    /\ calls[Len(calls)].answer =
          [ok |-> FALSE, error |-> <<"This", "operation", "was", "aborted">>]
    /\ reply = FailureReply(<<"This", "operation", "was", "aborted">>)

------------------------------------------------------------------------------
(* Backends that are reachable and behave as their interface says *)

\* What the backends answer, step by step, when the KEM backend and the
\* signature backends found at selection stay reachable and every backend
\* answers as its interface says: full keypairs and signer metadata, a
\* signature for every sign call, encapsulate-verified succeeding exactly on
\* the signatures that verify and failing with a verification error on the
\* others, decapsulate recovering the encapsulated secret.
BackendsBehave ==
    /\ (pc = "select" /\ awaiting' = {}) => (dBase' # NoBase \/ fBase' # NoBase)
    /\ (pc = "resolveKyber" /\ pc' # pc) => kyberBase' # NoBase
    /\ (pc = "resolveSig" /\ pc' # pc) => sigBase' # NoBase
    /\ pc = "keypair" => (kp'.publicKey = "pkGen" /\ kp'.secretKey = "skGen")
    /\ pc = "signer" => signer' = "svcPk"
    /\ pc = "rotationRotate" => pc' = "rotationRequery"
    /\ pc = "rotationRequery" => pc' = "rotationSign"
    /\ (pc = "rotationSign" \/ (pc = "strategy" /\ strategies[idx] # "rotation")) =>
         pc' = "encap"
    /\ pc = "encap" =>
         IF Verifies(ctx.signature, ctx.signerPublicKey)
         THEN encapRes' # NoRes /\ encapRes'.sharedSecret = "ssA"
         ELSE lastSigError' \in VerificationErrors /\ idx' = idx + 1
    /\ pc = "decap" =>
         (decapRes' # NoRes /\ decapRes'.sharedSecret = encapRes.sharedSecret)

LiveInit == Start(Requests, {NoSignerInfo}, MaxFaults, OneDown)

LiveNext == Next /\ BackendsBehave

\* Every await of the handler resolves: the calls have timeouts and the
\* backends answer.
LiveSpec == LiveInit /\ [][LiveNext]_vars /\ WF_vars(LiveNext)

\* C12: when the KEM backend and the selected signature backend are reachable
\* and every backend behaves as its interface says, every /select/ake request
\* eventually returns status "ok" with sharedSecretMatch true, whether the
\* rotation backend is reachable or not.
C12_EventuallyOk ==
    <>(/\ Succeeded
       /\ reply.code = 200
       /\ reply.body.status = "ok"
       /\ reply.body.sharedSecretMatch)

\* The rotation backend was reachable but reported no public key: its context
\* failed verification, the context of direct signing verified, and the
\* request returned ok.
C12_Witness ==
    /\ Succeeded
    /\ rotationBase # NoBase
    /\ lastSigError \in VerificationErrors
    /\ ctxForDecap.source = "direct"
    /\ reply.body.status = "ok"
    /\ reply.body.sharedSecretMatch

------------------------------------------------------------------------------
(* Backends that may never answer *)

\* The awaits that settle whatever the backend does: probe races its fetch
\* against withTimeout, getJSON and postJSON abort theirs by an
\* AbortController timer, and the steps between the awaits are the handler's
\* own.  The fetch of the signer metadata is given no signal and is raced
\* against nothing: it settles only if the backend or the runtime ends it.
TimedAwait ==
    \/ ProbeReturns
    \/ HealthKyber
    \/ HealthDilithium
    \/ HealthFalcon
    \/ HealthRotation
    \/ Receive
    \/ ProbeDilithium
    \/ ProbeFalcon
    \/ Select
    \/ ResolveKyber
    \/ ResolveSig
    \/ GenerateKeypair
    \/ ResolveRotation
    \/ RotationCurrent
    \/ RotationRotate
    \/ RotationRequery
    \/ RotationSign
    \/ DirectStrategy
    \/ BootstrapStrategy
    \/ EncapsulateVerified
    \/ Decapsulate

\* Every await that carries a timeout settles; a backend may answer any call
\* or never.
TimeoutSpec == Init /\ [][Next]_vars /\ WF_vars(TimedAwait)

\* C26: every outbound call of a /select/ake request carries a timeout, so
\* the request eventually reaches Done or Failed even when a backend accepts
\* the connection of any one of the calls and never answers.
C26_EveryRequestIsAnswered ==
    (pc = "idle") ~> (pc \in {"done", "failed"})

====
